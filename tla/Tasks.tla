------------------------------- MODULE Tasks -------------------------------
(***************************************************************************)
(* The requests behind the tracker, one SQL statement at a time: toggles   *)
(* of users, the task administration, and the reset of completions.        *)
(* Nothing holds a lock or a transaction across two statements, so those   *)
(* of other requests come in between.                                      *)
(***************************************************************************)
EXTENDS Tracker, Dashboard

CONSTANT Procs   \* the goroutines that serve a request

VARIABLES
  req,          \* req[p]: the request that p serves, or NULL
  quiet         \* history: quiet[p], only p has changed what concerns it since it arrived

vars == <<tableVars, req, quiet>>

\* at: the statement the request comes to next.
Toggles == [op : {"toggle"}, at : {"list", "lookup", "unmark", "mark", "confirm", "clock",
                                   "settings", "history", "tasks", "completions",
                                   "periods", "answer"},
            day : Int, user : Users, task : TaskIds, due : Int, partial : BOOLEAN,
            first : BOOLEAN,
            asOf : Int, sets : Settings, from : Int, row : Task \cup {NULL},
            done : SUBSET Completion, shown : Statuses \cup {NULL}]
Creates == [op : {"create"}, at : {"write"}, day : Int, row : Forms]
Updates == [op : {"update"}, at : {"get", "write"}, day : Int, task : TaskIds, row : Forms]
Actives == [op : {"active"}, at : {"get", "write"}, day : Int, task : TaskIds, active : BOOLEAN]
Deletes == [op : {"delete"}, at : {"get", "write"}, day : Int, task : TaskIds]
Moves   == [op : {"move"}, at : {"list", "write"}, day : Int, task : TaskIds,
            delta : {-1, 1}, goal : Seq(TaskIds), places : SUBSET TaskIds]
Resets  == [op : {"reset"}, at : {"settings", "user", "write"}, day : Int, user : Users,
            dates : SUBSET Int, window : SUBSET Int]

Request == Toggles \cup Creates \cup Updates \cup Actives \cup Deletes \cup Moves \cup Resets

ASSUME TasksAssumption == NULL \notin Request

Serving(p, op, at) == req[p] # NULL /\ req[p].op = op /\ req[p].at = at

\* The statement leaves the tables as they are.
Reads == UNCHANGED tableVars

Goto(p, at) == req' = [req EXCEPT ![p].at = at]

\* The statement, or the clock, is read into the locals of the request.
Fills(p, r) == req' = [req EXCEPT ![p] = r] /\ Reads

\* The handler returns: a redirect, a page, or an error.
Reply(p) == req' = [req EXCEPT ![p] = NULL]

(***************************************************************************)
(* POST /tasks/{id}/complete: ToggleComplete and ToggleAsOf.               *)
(***************************************************************************)
ToggleRequest(u, i, due, partial) ==
  [op |-> "toggle", at |-> "list", day |-> today, user |-> u, task |-> i, due |-> due,
   partial |-> partial, first |-> HasCompletion(u, i, due),
   asOf |-> today, sets |-> DefaultAppSettings, from |-> today, row |-> NULL, done |-> {},
   shown |-> NULL]

\* Mutation: a date on which the task is not due is not refused.
IsDueAnyDay(i, due) == i \in DOMAIN ListActiveTasks

\* ErrTaskNotAvailable, ErrInvalidOccurrenceDate otherwise.
IsDue(i, due) ==
  i \in DOMAIN ListActiveTasks /\ due \in occurrenceDates(ListActiveTasks[i], due, due)

ListForToggle(p) ==
  /\ Serving(p, "toggle", "list")
  /\ IF IsDue(req[p].task, req[p].due) THEN Goto(p, "lookup") ELSE Reply(p)
  /\ Reads

GetCompletion(p) ==
  /\ Serving(p, "toggle", "lookup")
  /\ Goto(p, IF HasCompletion(req[p].user, req[p].task, req[p].due)
             THEN "unmark" ELSE "mark")
  /\ Reads

\* Only a partial request is answered with a page, others are redirected.
Answer(p) == IF req[p].partial THEN Goto(p, "clock") ELSE Reply(p)

Unmark(p) ==
  /\ Serving(p, "toggle", "unmark")
  /\ MarkTaskIncomplete(req[p].user, req[p].task, req[p].due)
  /\ Answer(p)
  /\ UNCHANGED <<today, members, taskVars, periods, settingVars>>

Mark(p) ==
  /\ Serving(p, "toggle", "mark")
  /\ CanMarkTaskComplete(req[p].user, req[p].task)
  /\ MarkTaskComplete(req[p].user, req[p].task, req[p].due)
  /\ Goto(p, "confirm")
  /\ UNCHANGED <<today, members, taskVars, periods, settingVars>>

\* Mutation: the request is tried again.
RetriedWhenRefused(p) ==
  /\ Serving(p, "toggle", "mark")
  /\ ~CanMarkTaskComplete(req[p].user, req[p].task)
  /\ Goto(p, "lookup")
  /\ Reads

\* The user or the task is gone: a foreign key refuses the row.
MarkRefused(p) ==
  /\ Serving(p, "toggle", "mark")
  /\ ~CanMarkTaskComplete(req[p].user, req[p].task)
  /\ Reply(p)
  /\ Reads

\* The row is read back; without one, the request fails.
Confirm(p) ==
  /\ Serving(p, "toggle", "confirm")
  /\ IF HasCompletion(req[p].user, req[p].task, req[p].due) THEN Answer(p) ELSE Reply(p)
  /\ Reads

(***************************************************************************)
(* buildInner.  A row is looked for in the section of today if it was due  *)
(* on the day the request arrived, else in that of missed ones.  Kept is   *)
(* what decides on that row: the reads for other sections are left out.    *)
(***************************************************************************)
ReadClock(p) ==
  /\ Serving(p, "toggle", "clock")
  /\ Fills(p, [req[p] EXCEPT !.at = "settings", !.asOf = today])

ReadAppSettings(p) ==
  /\ Serving(p, "toggle", "settings")
  /\ Fills(p, [req[p] EXCEPT !.at   = IF req[p].due = req[p].day THEN "tasks" ELSE "history",
                             !.sets = AppSettings,
                             !.from = req[p].asOf])

\* The last date of the section.
LastShown(r) == IF r.due = r.day THEN r.asOf ELSE r.asOf - 1

\* The clock is read again: midnight may have passed since asOf.
MissedDatesOf(r) == WeekDatesForHistory(today, r.sets.weekStart, r.sets.weeks, FALSE)

ReadHistory(p) ==
  /\ Serving(p, "toggle", "history")
  /\ IF MissedDatesOf(req[p]) = {} \/ MissedFrom(MissedDatesOf(req[p])) > LastShown(req[p])
     THEN Fills(p, [req[p] EXCEPT !.at = "answer"])
     ELSE Fills(p, [req[p] EXCEPT !.at   = "tasks",
                                  !.from = MissedFrom(MissedDatesOf(req[p]))])

ReadTasks(p) ==
  /\ Serving(p, "toggle", "tasks")
  /\ Fills(p, [req[p] EXCEPT !.at  = "completions",
                             !.row = IF req[p].task \in DOMAIN ListActiveTasks
                                     THEN ListActiveTasks[req[p].task] ELSE NULL])

ReadCompletions(p) ==
  /\ Serving(p, "toggle", "completions")
  /\ Fills(p, [req[p] EXCEPT
                 !.at   = "periods",
                 !.done = {c \in ListCompletionsForUserInRange(req[p].user, req[p].from,
                                                               LastShown(req[p])) :
                             c.task = req[p].task /\ c.due = req[p].due}])

\* The toggled one among the occurrences of the section's dates.
Occurs(r, inPeriods) ==
  IF r.row = NULL \/ r.due \notin r.from .. LastShown(r) THEN {}
  ELSE buildOccurrences([i \in {r.task} |-> r.row], r.done, inPeriods, r.asOf, r.due, r.due)

InSection(r, occs) == {o \in occs : r.due = r.day \/ showInMissedSection(o)}

\* NULL: no such row, the old one is removed or replaced by a hidden one.
StatusIn(occs) == IF occs = {} THEN NULL ELSE (CHOOSE o \in occs : TRUE).status

ReadPeriods(p) ==
  /\ Serving(p, "toggle", "periods")
  /\ Fills(p, [req[p] EXCEPT
                 !.at    = "answer",
                 !.shown = StatusIn(InSection(req[p],
                             Occurs(req[p], ListMensesPeriodsForUserInRange(
                                              req[p].user, req[p].from, LastShown(req[p])))))])

SendPage(p) ==
  /\ Serving(p, "toggle", "answer")
  /\ Reply(p)
  /\ Reads

ServeToggle(p) ==
  \/ ListForToggle(p) \/ GetCompletion(p) \/ Unmark(p)
  \/ Mark(p) \/ MarkRefused(p) \/ Confirm(p)
  \/ ReadClock(p) \/ ReadAppSettings(p) \/ ReadHistory(p)
  \/ ReadTasks(p) \/ ReadCompletions(p) \/ ReadPeriods(p) \/ SendPage(p)

(***************************************************************************)
(* The task administration: one INSERT, or GetTask and then one statement. *)
(***************************************************************************)
CreateRequest(row)       == [op |-> "create", at |-> "write", day |-> today, row |-> row]
UpdateRequest(i, row)    == [op |-> "update", at |-> "get", day |-> today, task |-> i, row |-> row]
ActiveRequest(i, act)    == [op |-> "active", at |-> "get", day |-> today, task |-> i, active |-> act]
DeleteRequest(i)         == [op |-> "delete", at |-> "get", day |-> today, task |-> i]

\* ErrTaskNotFound when the task is gone.
GetTask(p) ==
  /\ \E op \in {"update", "active", "delete"} : Serving(p, op, "get")
  /\ IF tasks[req[p].task] = NULL THEN Reply(p) ELSE Goto(p, "write")
  /\ Reads

\* Bound: the INSERT fails when no ids are left.
InsertTask(p) ==
  /\ Serving(p, "create", "write")
  /\ IF lastTask < MaxTasks THEN CreateTask(req[p].row) ELSE UNCHANGED taskVars
  /\ Reply(p)
  /\ UNCHANGED <<today, members, completions, periods, settingVars>>

WriteUpdate(p) ==
  /\ Serving(p, "update", "write")
  /\ UpdateTask(req[p].task, req[p].row)
  /\ Reply(p)
  /\ UNCHANGED <<today, members, completions, periods, settingVars>>

WriteActive(p) ==
  /\ Serving(p, "active", "write")
  /\ SetTaskActive(req[p].task, req[p].active)
  /\ Reply(p)
  /\ UNCHANGED <<today, members, completions, periods, settingVars>>

WriteDelete(p) ==
  /\ Serving(p, "delete", "write")
  /\ DeleteTask(req[p].task)
  /\ Reply(p)
  /\ UNCHANGED <<today, members, periods, settingVars>>

(***************************************************************************)
(* Move: the list is read, two neighbours change places, and the tasks are *)
(* numbered 10, 20, 30, ... where they are not, one UPDATE after another.  *)
(***************************************************************************)
MoveRequest(i, delta) ==
  [op |-> "move", at |-> "list", day |-> today, task |-> i, delta |-> delta,
   goal |-> << >>, places |-> {}]

Exchanged(list, m, n) == [list EXCEPT ![m] = list[n], ![n] = list[m]]

\* Mutation: only the two tasks that change places are numbered.
PlacesOfTwo(goal, m, n) == {m, n}

\* The places in the new list whose task has another number.
PlacesToNumber(goal, m, n) == {k \in 1 .. Len(goal) : tasks[goal[k]].seq # 10 * k}

\* ErrTaskNotFound, or at the edge of the list: a reply.
ListForMove(p) ==
  /\ Serving(p, "move", "list")
  /\ LET list    == ListTasks
         idx     == {n \in 1 .. Len(list) : list[n] = req[p].task}
         targets == {n + req[p].delta : n \in idx} \cap 1 .. Len(list)
     IN  IF targets = {} THEN Reply(p)
         ELSE LET m    == CHOOSE n \in idx : TRUE
                  n    == m + req[p].delta
                  goal == Exchanged(list, m, n)
              IN  req' = [req EXCEPT ![p] = [@ EXCEPT
                            !.at     = "write",
                            !.goal   = goal,
                            !.places = PlacesToNumber(goal, m, n)]]
  /\ Reads

WriteSequence(p) ==
  /\ Serving(p, "move", "write")
  /\ \E k \in req[p].places :
       /\ \A n \in req[p].places : k <= n
       /\ SetTaskSequence(req[p].goal[k], 10 * k)
       /\ req' = [req EXCEPT ![p].places = @ \ {k}]
  /\ UNCHANGED <<today, members, completions, periods, settingVars>>

Moved(p) ==
  /\ Serving(p, "move", "write")
  /\ req[p].places = {}
  /\ Reply(p)
  /\ Reads

(***************************************************************************)
(* POST /settings/users/{id}/reset-data: ResetData and ResetCompletions.   *)
(***************************************************************************)
ResetRequest(u, dates) ==
  [op |-> "reset", at |-> "settings", day |-> today, user |-> u, dates |-> dates,
   window |-> {}]

ReadSettings(p) ==
  /\ Serving(p, "reset", "settings")
  /\ req' = [req EXCEPT ![p] = [@ EXCEPT
               !.at     = "user",
               !.window = WeekDatesForHistory(today, AppSettings.weekStart,
                                              AppSettings.weeks, TRUE)]]
  /\ Reads

\* ErrUserNotFound, no dates, or one outside the window: nothing is deleted.
MayReset(p) ==
  /\ req[p].user \in members
  /\ req[p].dates # {}
  /\ req[p].dates \subseteq req[p].window

GetUser(p) ==
  /\ Serving(p, "reset", "user")
  /\ IF MayReset(p) THEN Goto(p, "write") ELSE Reply(p)
  /\ Reads

WriteReset(p) ==
  /\ Serving(p, "reset", "write")
  /\ DeleteCompletionsForUserOnDates(req[p].user, req[p].dates)
  /\ Reply(p)
  /\ UNCHANGED <<today, members, taskVars, periods, settingVars>>

ServeAdmin(p) ==
  \/ GetTask(p) \/ InsertTask(p) \/ WriteUpdate(p) \/ WriteActive(p) \/ WriteDelete(p)
  \/ ListForMove(p) \/ WriteSequence(p) \/ Moved(p)
  \/ ReadSettings(p) \/ GetUser(p) \/ WriteReset(p)

-----------------------------------------------------------------------------
\* Any statement may fail, and the program may stop: a crash ends every request.
Fail(p) ==
  /\ req[p] # NULL
  /\ Reply(p)
  /\ Reads

Serve(p) == ServeToggle(p) \/ ServeAdmin(p)

\* Who sees what of a task: on which dates, and during which periods.
Timetable(row) == <<row.freq, row.start, row.end, row.active, row.exempt>>

\* The rows that the answer of a request depends on.
Concern(r) ==
  CASE r.op = "toggle" -> <<settings, [i \in {r.task} \cap Existing |-> Timetable(tasks[i])],
                            {q \in periods : q.user = r.user},
                            CompletionsOf(r.user, r.task, r.due)>>
    [] r.op = "move"   -> [i \in Existing |-> tasks[i].seq]
    [] OTHER           -> <<>>

\* Whoever else has a request under way notices that its rows have changed.
Noticed(by) ==
  quiet' = [q \in Procs |->
              req'[q] = NULL
                \/ (quiet[q] /\ (q \in by \/ Concern(req[q])' = Concern(req[q])))]

Arrives(p, r) ==
  /\ req[p] = NULL
  /\ req' = [req EXCEPT ![p] = r]
  /\ UNCHANGED <<tableVars, quiet>>

Arrive(p) ==
  \/ \E u \in members, i \in TaskIds, due \in Asked, partial \in BOOLEAN :
       Arrives(p, ToggleRequest(u, i, due, partial))
  \/ \E row \in Forms :
       Arrives(p, CreateRequest(row))
       \/ \E i \in TaskIds : Arrives(p, UpdateRequest(i, row))
  \/ \E i \in TaskIds, act \in BOOLEAN : Arrives(p, ActiveRequest(i, act))
  \/ \E i \in TaskIds : Arrives(p, DeleteRequest(i))
  \/ \E i \in TaskIds, delta \in {-1, 1} : Arrives(p, MoveRequest(i, delta))
  \/ \E u \in Users, dates \in SUBSET Asked : Arrives(p, ResetRequest(u, dates))

\* Requests of the other modules, one statement each.
Others ==
  /\ \/ \E u \in Users :
          \/ \E d \in PeriodForms(u) :
               RecordPeriod(u, d) \/ \E q \in periods : ChangePeriod(u, q, d)
          \/ \E q \in periods : DeletePeriod(u, q)
          \/ RemoveUser(u)
     \/ \E row \in Settings : SaveSettings(row)
  /\ UNCHANGED req

\* Bound: a request is answered by the end of the day after it arrived.
Midnight ==
  /\ \A p \in Procs : req[p] # NULL => req[p].day = today
  /\ MidnightPasses
  /\ UNCHANGED req

Init ==
  /\ TablesInit
  /\ req   = [p \in Procs |-> NULL]
  /\ quiet = [p \in Procs |-> TRUE]

Next ==
  \/ \E p \in Procs : Arrive(p) \/ ((Serve(p) \/ Fail(p)) /\ Noticed({p}))
  \/ (Others \/ Midnight) /\ Noticed({})

\* The scheduler runs every goroutine, and the driver answers.
Fairness == \A p \in Procs : WF_req(Serve(p))

Spec == Init /\ [][Next]_vars

FairSpec == Spec /\ Fairness

-----------------------------------------------------------------------------
TasksTypeOK ==
  /\ TablesTypeOK
  /\ req   \in [Procs -> Request \cup {NULL}]
  /\ quiet \in [Procs -> BOOLEAN]

\* Whatever requests are served at once, the tables change as Tracker says: a
\* row is written for a task that exists, on a date it was due, and erased only
\* within the window of the history (services/tasks.go, task_admin.go).
ImplementsTracker == TrackerSpec

ExemptNow(r) ==
  tasks[r.task].exempt /\ dateInAnyPeriod(r.due, {q \in periods : q.user = r.user})

HistoryOn(day) == WeekDatesForHistory(day, AppSettings.weekStart, AppSettings.weeks, FALSE)

\* Today's row is gone once midnight has passed; of the past, the page shows
\* the window of the history, and nothing that is exempt.
MayHide(r) ==
  IF r.due = r.day THEN r.asOf # r.day
  ELSE ExemptNow(r) \/ r.due >= r.asOf \/ \E day \in r.asOf .. today : r.due \notin HistoryOn(day)

\* Whatever other users toggle and record meanwhile, and whatever happens to
\* other tasks, a toggle answers with the opposite of what it found: with a
\* row that says so, and without one only if it cannot be on the page
\* (ToggleAsOf, buildInner, renderToggleFragments).
AnswerShowsToggle ==
  \A p \in Procs :
    Serving(p, "toggle", "answer") /\ quiet[p] =>
      \/ req[p].shown = NULL /\ MayHide(req[p])
      \/ req[p].shown = "exempt" /\ ExemptNow(req[p])
      \/ req[p].shown = "completed" /\ ~ExemptNow(req[p]) /\ ~req[p].first
      \/ req[p].shown \in {"pending", "missed"} /\ ~ExemptNow(req[p]) /\ req[p].first

\* Whatever is done to the tasks but to number, create or delete them, a move
\* exchanges two neighbours, leaves the others in their order, whatever numbers
\* they had, and numbers the list 10, 20, 30, ... (task_admin.go, Move).
MoveExchanges ==
  \A p \in Procs :
    Serving(p, "move", "write") /\ req[p].places = {} /\ quiet[p] =>
      /\ ListTasks = req[p].goal
      /\ \A k \in DOMAIN req[p].goal : tasks[req[p].goal[k]].seq = 10 * k

\* Every request is answered.
RequestsAnswered == \A p \in Procs : []<>(req[p] = NULL)
=============================================================================
