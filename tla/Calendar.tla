------------------------------ MODULE Calendar ------------------------------
(***************************************************************************)
(* handlers/calendar.go: a month as a grid of whole weeks, with how much   *)
(* of each day is completed, and the panel that lists one day.             *)
(***************************************************************************)
EXTENDS Tables

Tally(occs) ==
  LET due == {o \in occs : o.status # "exempt"}
  IN  [completed |-> Cardinality({o \in due : o.status = "completed"}),
       total     |-> Cardinality(due)]

calendarDayFromOccurrences(occs) ==
  LET inOrder == InOrder(occs, LAMBDA a, b : SortsBefore(ListActiveTasks, a, b))
  IN  [tasks |-> [n \in DOMAIN inOrder |-> [task   |-> inOrder[n].task,
                                            status |-> inOrder[n].status]],
       tally |-> Tally(occs)]

buildDay(u, date) == calendarDayFromOccurrences(OccurrencesOn(u, date))

\* The shade of a cell: by quarters of what was due, flat for the future.
heatmapClass(tally, future) ==
  LET done == tally.completed
      total == tally.total
  IN  CASE total = 0                                     -> "none"
        [] total # 0 /\ future                           -> "flat"
        [] total # 0 /\ ~future /\ done = 0              -> "error"
        [] total # 0 /\ ~future /\ done > 0              ->
             IF done >= total THEN "full" ELSE <<"quarters", (4 * done) \div total>>

\* NULL stands for a missing or malformed parameter.
parseMonth(mn, fallback) == IF mn = NULL THEN MonthOf(fallback) ELSE mn

\* Mutation: the last week is not filled up.
GridEndUnpadded(mn, startDay) == FirstOf(mn + 1) - 1

GridStart(mn, startDay) ==
  LET start == FirstOf(mn)
  IN  start - ((Weekday(start) - startDay + 7) % 7)

GridEnd(mn, startDay) ==
  LET end == FirstOf(mn + 1) - 1
  IN  end + ((startDay + 6 - Weekday(end) + 7) % 7)

Cell(u, mn, d, occs) ==
  LET tally == Tally({o \in occs : o.due = d})
  IN  [date    |-> d,
       inMonth |-> MonthOf(d) % 12 = mn % 12,
       today   |-> d = today,
       future  |-> d > today,
       tally   |-> tally,
       class   |-> heatmapClass(tally, d > today)]

\* A week is appended each time seven cells are there.
buildGrid(u, mn) ==
  LET startDay == AppSettings.weekStart
      start    == GridStart(mn, startDay)
      end      == GridEnd(mn, startDay)
      occs     == OccurrencesBetween(u, start, end)
  IN  [prev     |-> mn - 1,
       next     |-> mn + 1,
       weekdays |-> WeekdayLabels(startDay),
       weeks    |-> Listed([w \in 1 .. (end - start + 1) \div 7 |->
                              Listed([k \in 1 .. 7 |->
                                        Cell(u, mn, start + 7 * (w - 1) + k - 1, occs)])])]
=============================================================================
