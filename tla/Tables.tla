------------------------------- MODULE Tables -------------------------------
(***************************************************************************)
(* The tables behind the tracker: tasks, task_completions, menses_periods  *)
(* and app_settings, with one operator per SQL statement, and the reads    *)
(* that every page is built from.  As in Store, no statement is in a       *)
(* transaction with another.                                               *)
(*                                                                         *)
(* A user is known by its id.  `today' is the date in the application's    *)
(* time zone; the database stamps completions with the same clock.         *)
(***************************************************************************)
EXTENDS Schedule, Sequences

CONSTANTS
  Users,        \* the regular users who have an account at the start
  MaxTasks,     \* bound: AUTO_INCREMENT ids the tasks table hands out
  Days,         \* bound: the dates on which the program is looked at
  Back, Ahead,  \* bound: requests name dates from today - Back to today + Ahead
  Forms,        \* the tasks an administrator may submit
  Catalogs      \* what the database may hold at the start, and the dates it is then

TaskIds    == 1 .. MaxTasks
Schedules  == [freq : Frequencies, start : Int, end : Int \cup {NULL}]
Completion == [user : Users, task : TaskIds, due : Int, at : Int]
Period     == [user : Users, start : Int, end : Int \cup {NULL}]
Settings   == [weekStart : Weekdays, weeks : 1 .. 4]

\* One row for each task, user and date.
KeyHolds(rows) ==
  \A c, d \in rows : c.user = d.user /\ c.task = d.task /\ c.due = d.due => c = d

ASSUME TablesAssumption ==
  /\ MaxTasks \in Nat
  /\ Days \subseteq Nat
  /\ Back \in Nat /\ Ahead \in Nat
  /\ Forms \subseteq Task
  /\ \A f \in Forms : f.end = NULL \/ f.start <= f.end     \* validateAndBuild
  /\ \A c \in Catalogs : /\ c.days \subseteq Days
                          /\ c.rows \in Seq(Task) /\ Len(c.rows) <= MaxTasks
                          /\ c.done \subseteq [user : Users, task : 1 .. Len(c.rows),
                                               due : Int, at : Int]
                          /\ KeyHolds(c.done)
  /\ NULL \notin Int /\ NULL \notin Users /\ NULL \notin Task
  /\ NULL \notin Settings

VARIABLES
  today,        \* the date
  members,      \* users not deleted
  tasks,        \* tasks[i]: the row, or NULL
  lastTask,     \* the last AUTO_INCREMENT id handed out
  completions,  \* the rows of task_completions
  periods,      \* the rows of menses_periods
  settings,     \* the row of app_settings, which a migration inserts
  schedules,    \* history: schedules[i], those that i had while it was active
  adopted       \* history: the settings that are or were in force

taskVars    == <<tasks, lastTask, schedules>>
settingVars == <<settings, adopted>>
tableVars   == <<today, members, taskVars, completions, periods, settingVars>>

\* The dates that requests name.
Asked == today - Back .. today + Ahead

\* What decides on which dates a row is due.
ScheduleOf(row) == [freq |-> row.freq, start |-> row.start, end |-> row.end]

InForce(row) == IF row.active THEN {ScheduleOf(row)} ELSE {}

TablesInit ==
  /\ \E c \in Catalogs :
       /\ today       \in c.days
       /\ tasks       = [i \in TaskIds |-> IF i <= Len(c.rows) THEN c.rows[i] ELSE NULL]
       /\ lastTask    = Len(c.rows)
       /\ completions = c.done
  /\ members     = Users
  /\ periods     = {}
  /\ settings    = [weekStart |-> 6, weeks |-> 1]
  /\ adopted     = {settings}
  /\ schedules   = [i \in TaskIds |-> IF tasks[i] = NULL THEN {} ELSE InForce(tasks[i])]

(***************************************************************************)
(* tasks.sql                                                               *)
(***************************************************************************)
Existing == {i \in TaskIds : tasks[i] # NULL}

\* ORDER BY sequence ASC, created_at DESC: of two equal ones, the later first.
\* Bound: no two tasks are created in the same second, for which SQL promises
\* no order.
ListedBefore(i, j) ==
  \/ tasks[i].seq < tasks[j].seq
  \/ tasks[i].seq = tasks[j].seq /\ i > j

\* The same sequence.  (TLC evaluates a concatenation once, but a function
\* anew each time it is applied.)
Listed(seq) == <<>> \o seq

\* The elements of a set in a strict order.
InOrder(S, Precedes(_, _)) ==
  Listed([n \in 1 .. Cardinality(S) |->
            CHOOSE x \in S : Cardinality({y \in S : Precedes(y, x)}) = n - 1])

ListTasks == InOrder(Existing, ListedBefore)

ListActiveTasks == [i \in {j \in Existing : tasks[j].active} |-> tasks[i]]

CreateTask(row) ==
  /\ lastTask'  = lastTask + 1
  /\ tasks'     = [tasks     EXCEPT ![lastTask + 1] = row]
  /\ schedules' = [schedules EXCEPT ![lastTask + 1] = @ \cup InForce(row)]

\* An UPDATE matches no row, and reports no error, when the task is gone.
Overwrite(i, row) ==
  /\ tasks'     = [tasks     EXCEPT ![i] = IF @ = NULL THEN NULL ELSE row]
  /\ schedules' = [schedules EXCEPT ![i] = IF tasks[i] = NULL THEN @ ELSE @ \cup InForce(row)]
  /\ UNCHANGED lastTask

UpdateTask(i, row) == Overwrite(i, row)

SetTaskActive(i, active) == Overwrite(i, [tasks[i] EXCEPT !.active = active])

SetTaskSequence(i, seq) == Overwrite(i, [tasks[i] EXCEPT !.seq = seq])

\* Mutation: the completions of the task stay.
DeleteRowOnly(i) ==
  /\ tasks' = [tasks EXCEPT ![i] = NULL]
  /\ UNCHANGED <<lastTask, schedules, completions>>

\* ON DELETE CASCADE removes the completions of the task.
DeleteTask(i) ==
  /\ tasks'       = [tasks EXCEPT ![i] = NULL]
  /\ completions' = {c \in completions : c.task # i}
  /\ UNCHANGED <<lastTask, schedules>>

(***************************************************************************)
(* task_completions.sql.  A UNIQUE KEY on the task, the user and the date. *)
(***************************************************************************)
CompletionsOf(u, i, due) ==
  {c \in completions : c.user = u /\ c.task = i /\ c.due = due}

HasCompletion(u, i, due) == CompletionsOf(u, i, due) # {}

\* The foreign keys need the user and the task to exist.
CanMarkTaskComplete(u, i) == u \in members /\ tasks[i] # NULL

\* ON DUPLICATE KEY UPDATE completed_at
Completed(u, i, due) ==
  (completions \ CompletionsOf(u, i, due))
    \cup {[user |-> u, task |-> i, due |-> due, at |-> today]}

MarkTaskComplete(u, i, due) == completions' = Completed(u, i, due)

Uncompleted(u, i, due) == completions \ CompletionsOf(u, i, due)

MarkTaskIncomplete(u, i, due) == completions' = Uncompleted(u, i, due)

DeleteCompletionsForUserOnDates(u, dates) ==
  completions' = {c \in completions : c.user # u \/ c.due \notin dates}

\* DeleteUser: ON DELETE CASCADE removes what the user recorded.
ForgetUser(u) ==
  /\ members'     = members \ {u}
  /\ completions' = {c \in completions : c.user # u}
  /\ periods'     = {p \in periods : p.user # u}

(***************************************************************************)
(* AppSettingsService.Get: a missing or an illegal value gives the default.*)
(***************************************************************************)
DefaultAppSettings == [weekStart |-> 6, weeks |-> 1]

AppSettings ==
  IF settings = NULL THEN DefaultAppSettings
  ELSE [weekStart |-> IF settings.weekStart \in Weekdays THEN settings.weekStart
                      ELSE DefaultAppSettings.weekStart,
        weeks     |-> IF settings.weeks \in 1 .. 4 THEN settings.weeks
                      ELSE DefaultAppSettings.weeks]

(***************************************************************************)
(* OccurrencesBetweenAsOf.                                                 *)
(***************************************************************************)
\* Mutation: the last date of the range is left out.
CompletionsBefore(u, from, to) ==
  {c \in completions : c.user = u /\ c.due \in from .. to - 1}

ListCompletionsForUserInRange(u, from, to) ==
  {c \in completions : c.user = u /\ c.due \in from .. to}

ListMensesPeriodsForUserInRange(u, from, to) ==
  {p \in periods : p.user = u /\ p.start <= to /\ (p.end = NULL \/ p.end >= from)}

OccurrencesBetween(u, from, to) ==
  IF to < from THEN {}
  ELSE buildOccurrences(ListActiveTasks, ListCompletionsForUserInRange(u, from, to),
                        ListMensesPeriodsForUserInRange(u, from, to), today, from, to)

OccurrencesOn(u, date) == OccurrencesBetween(u, date, date)

\* Rows have their types, and the keys of the tables hold: ids beyond lastTask
\* are unused, a completion belongs to a user and a task that exist, and there
\* is one for each task, user and date.
TablesTypeOK ==
  /\ today       \in Days
  /\ members     \in SUBSET Users
  /\ tasks       \in [TaskIds -> Task \cup {NULL}]
  /\ lastTask    \in 0 .. MaxTasks
  /\ schedules   \in [TaskIds -> SUBSET Schedules]
  /\ completions \subseteq Completion
  /\ periods     \subseteq Period
  /\ settings    \in adopted
  /\ adopted     \subseteq Settings
  /\ \A i \in Existing : i <= lastTask /\ InForce(tasks[i]) \subseteq schedules[i]
  /\ \A c \in completions : c.user \in members /\ tasks[c.task] # NULL
  /\ KeyHolds(completions)
=============================================================================
