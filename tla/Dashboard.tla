----------------------------- MODULE Dashboard -----------------------------
(***************************************************************************)
(* handlers/dashboard.go: the page a user starts from, and the fragments   *)
(* that answer a toggle.                                                   *)
(***************************************************************************)
EXTENDS Tables

Row == [task : TaskIds, due : Int, status : Statuses]

ASSUME RowsAssumption ==
  /\ NULL \notin Row
  /\ NULL \notin [list : {"pending", "done"}, row : Row, before : Row \cup {NULL}]

\* Rows in the order in which buildOccurrences lists their occurrences.
InSchedule(rows) ==
  InOrder(rows, LAMBDA a, b : SortsBefore(ListActiveTasks, a, b))

Complete(o) == o.status = "completed"
Exempt(o)   == o.status = "exempt"

Count(occs, P(_)) == Cardinality({o \in occs : P(o)})

(***************************************************************************)
(* computeStats.  Exempt occurrences count neither as due nor as done.     *)
(***************************************************************************)
Done(occs)  == Count(occs, LAMBDA o : Complete(o))
Total(occs) == Count(occs, LAMBDA o : ~Exempt(o))

WholePercent(done, total) == IF total > 0 THEN (100 * done) \div total ELSE 0

AllDone(occs) == occs # {} /\ \A o \in occs : Complete(o) \/ Exempt(o)

\* Days in a row, going back; today need not be complete yet.
Streak(u) ==
  LET from[offset \in 0 .. 365] ==
        IF offset = 365 THEN 0
        ELSE IF AllDone(OccurrencesOn(u, today - offset)) THEN 1 + from[offset + 1]
        ELSE IF offset = 0 THEN from[1]
        ELSE 0
  IN  from[0]

\* day: the occurrences of today, week: those from the start of the week on.
StatsOf(day, week, streak) ==
  [todayTotal  |-> Total(day),  todayDone  |-> Done(day),
   todayPct    |-> WholePercent(Done(day), Total(day)),
   pending     |-> Total(day) - Done(day),
   weeklyTotal |-> Total(week), weeklyDone |-> Done(week),
   weeklyPct   |-> WholePercent(Done(week), Total(week)),
   streak      |-> streak]

\* Bound: these reads succeed (the code goes on without those that fail).
computeStats(u) ==
  StatsOf(OccurrencesOn(u, today),
          OccurrencesBetween(u, WeekStartFor(today, AppSettings.weekStart), today),
          Streak(u))

(***************************************************************************)
(* buildInner.  A row is known by its task and date; the groups of missed  *)
(* rows are a function of the date, shown from the latest to the first.    *)
(***************************************************************************)
RowOf(o) == [task |-> o.task, due |-> o.due, status |-> o.status]

RowsOf(occs) == InSchedule({RowOf(o) : o \in occs})

showInMissedSection(o) == o.status = "missed" \/ (Complete(o) /\ o.at > o.due)

MissedDates == WeekDatesForHistory(today, AppSettings.weekStart, AppSettings.weeks, FALSE)

\* day: the occurrences of today, shown: those in the section of missed ones.
InnerOf(day, shown, stats) ==
  [pending |-> RowsOf({o \in day : ~Complete(o) /\ ~Exempt(o)}),
   done    |-> RowsOf({o \in day : Complete(o) \/ Exempt(o)}),
   missed  |-> [d \in {o.due : o \in shown} |-> RowsOf({o \in shown : o.due = d})],
   stats   |-> stats]

MissedFrom(dates) == CHOOSE d \in dates : \A e \in dates : d <= e

MissedRange(u, dates) ==
  IF dates = {} THEN {} ELSE OccurrencesBetween(u, MissedFrom(dates), today - 1)

buildInner(u) ==
  InnerOf(OccurrencesOn(u, today),
          {o \in MissedRange(u, MissedDates) : showInMissedSection(o)},
          computeStats(u))

(***************************************************************************)
(* The fragments of a toggle.  findRowPlacement: the row in the rebuilt    *)
(* list, and the row it is inserted before.                                *)
(***************************************************************************)
Places(rows, i, due) == {n \in DOMAIN rows : rows[n].task = i /\ rows[n].due = due}

\* The loop, and a selector of the script, stop at the first one.
FirstPlace(rows, i, due) ==
  CHOOSE n \in Places(rows, i, due) : \A m \in Places(rows, i, due) : n <= m

\* Mutation: the row is put before the one it follows.
PlacementAfter(rows, n) == IF n > 1 THEN rows[n - 1] ELSE NULL

Before(rows, n) == IF n + 1 <= Len(rows) THEN rows[n + 1] ELSE NULL

findRowPlacement(rows, list, i, due) ==
  LET n == FirstPlace(rows, i, due)
  IN  [list |-> list, row |-> rows[n], before |-> Before(rows, n)]

renderTodayToggleFragments(inner, i, due) ==
  IF Places(inner.pending, i, due) # {}
  THEN findRowPlacement(inner.pending, "pending", i, due)
  ELSE IF Places(inner.done, i, due) # {}
  THEN findRowPlacement(inner.done, "done", i, due)
  ELSE NULL

\* The row of a missed group, or a hidden one.
renderMissedFragment(inner, i, due) ==
  IF due \in DOMAIN inner.missed /\ Places(inner.missed[due], i, due) # {}
  THEN inner.missed[due][FirstPlace(inner.missed[due], i, due)]
  ELSE NULL
=============================================================================
