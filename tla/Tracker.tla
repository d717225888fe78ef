------------------------------ MODULE Tracker ------------------------------
(***************************************************************************)
(* What the tracker promises: every operation takes effect in one step,    *)
(* and only Move, which numbers the tasks one by one, takes several.       *)
(* Tasks shows that the requests of the server implement it; the pages are *)
(* checked in the states it reaches.                                       *)
(***************************************************************************)
EXTENDS Tables

CONSTANT MaxPeriods   \* bound: rows of menses_periods at a time

(***************************************************************************)
(* Users.                                                                  *)
(***************************************************************************)

\* The date was an occurrence of the task, active at the time, when the
\* request looked: an administrator may have changed the task since.
WasDue(i, due) == \E s \in schedules[i] : due \in occurrenceDates(s, due, due)

\* Toggle flips whether the occurrence is completed.
Toggle(u, i, due) ==
  /\ u \in members /\ tasks[i] # NULL
  /\ WasDue(i, due)
  /\ IF HasCompletion(u, i, due) THEN MarkTaskIncomplete(u, i, due)
                                 ELSE MarkTaskComplete(u, i, due)
  /\ UNCHANGED <<today, members, taskVars, periods, settingVars>>

\* The form was submitted twice: the second, which did not find the row of the
\* first, only stamps it anew.
Resubmit(u, i, due) ==
  /\ HasCompletion(u, i, due)
  /\ MarkTaskComplete(u, i, due)
  /\ UNCHANGED <<today, members, taskVars, periods, settingVars>>

\* What is asked of a period (MensesPeriods has the requests).
Recordable(u, p) ==
  /\ u \in members
  /\ p.end # NULL => p.start <= p.end

PeriodForms(u) == [user : {u}, start : Asked, end : Asked \cup {NULL}]

RecordPeriod(u, p) ==
  /\ Cardinality(periods) < MaxPeriods
  /\ Recordable(u, p)
  /\ periods' = periods \cup {p}
  /\ UNCHANGED <<today, members, taskVars, completions, settingVars>>

ChangePeriod(u, q, p) ==
  /\ q.user = u
  /\ Recordable(u, p)
  /\ periods' = (periods \ {q}) \cup {p}
  /\ UNCHANGED <<today, members, taskVars, completions, settingVars>>

DeletePeriod(u, q) ==
  /\ q.user = u
  /\ periods' = periods \ {q}
  /\ UNCHANGED <<today, members, taskVars, completions, settingVars>>

(***************************************************************************)
(* Administrators.                                                         *)
(***************************************************************************)
Create(row) ==
  /\ lastTask < MaxTasks
  /\ CreateTask(row)
  /\ UNCHANGED <<today, members, completions, periods, settingVars>>

Update(i, row) ==
  /\ tasks[i] # NULL
  /\ UpdateTask(i, row)
  /\ UNCHANGED <<today, members, completions, periods, settingVars>>

SetActive(i, active) ==
  /\ tasks[i] # NULL
  /\ SetTaskActive(i, active)
  /\ UNCHANGED <<today, members, completions, periods, settingVars>>

Delete(i) ==
  /\ tasks[i] # NULL
  /\ DeleteTask(i)
  /\ UNCHANGED <<today, members, periods, settingVars>>

\* Move numbers the list anew, one task at a time.
Renumber(i, n) ==
  /\ tasks[i] # NULL
  /\ SetTaskSequence(i, 10 * n)
  /\ UNCHANGED <<today, members, completions, periods, settingVars>>

\* ResetCompletions: the dates lie in the history window of the settings in
\* force when the administrator asked: midnight may have passed since, and the
\* settings may have changed.
ResetWindow(day, s) == WeekDatesForHistory(day, s.weekStart, s.weeks, TRUE)

Reset(u, dates) ==
  /\ UNCHANGED <<today, members, taskVars, periods, settingVars>>
  /\ DeleteCompletionsForUserOnDates(u, dates)
  /\ {x \in {today - 1, today} \X adopted : dates \subseteq ResetWindow(x[1], x[2])} # {}

SaveSettings(row) ==
  /\ settings' = row
  /\ adopted'  = adopted \cup {row}
  /\ UNCHANGED <<today, members, taskVars, completions, periods>>

RemoveUser(u) ==
  /\ u \in members
  /\ ForgetUser(u)
  /\ UNCHANGED <<today, taskVars, settingVars>>

MidnightPasses ==
  /\ today + 1 \in Days
  /\ today' = today + 1
  /\ UNCHANGED <<members, taskVars, completions, periods, settingVars>>

-----------------------------------------------------------------------------
\* What was named before midnight may take effect after it.
AskedLately == today - Back - 1 .. today + Ahead

UserStep(u) ==
  \/ \E i \in TaskIds, due \in AskedLately : Toggle(u, i, due) \/ Resubmit(u, i, due)
  \/ \E p \in PeriodForms(u) :
       RecordPeriod(u, p) \/ \E q \in periods : ChangePeriod(u, q, p)
  \/ \E q \in periods : DeletePeriod(u, q)

AdminStep ==
  \/ \E row \in Settings : SaveSettings(row)
  \/ \E row \in Forms : Create(row) \/ \E i \in TaskIds : Update(i, row)
  \/ \E i \in TaskIds :
       \/ Delete(i)
       \/ \E active \in BOOLEAN : SetActive(i, active)
       \/ \E n \in TaskIds : Renumber(i, n)
  \/ \E u \in Users : RemoveUser(u) \/ \E dates \in SUBSET AskedLately : Reset(u, dates)

TrackerNext == AdminStep \/ (\E u \in Users : UserStep(u)) \/ MidnightPasses

TrackerInit == TablesInit

TrackerSpec == TrackerInit /\ [][TrackerNext]_tableVars
=============================================================================
