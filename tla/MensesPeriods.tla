--------------------------- MODULE MensesPeriods ---------------------------
(***************************************************************************)
(* MensesAdminService: the menses periods a user records, during which     *)
(* exempt tasks are not due.  Periods of a user must not overlap, which    *)
(* the service checks by listing them before it writes; an open period has *)
(* no end date and reaches into the far future.                            *)
(*                                                                         *)
(* As in Requests, a request advances by one SQL statement per step.  The  *)
(* session and the user it belongs to are taken as resolved.               *)
(***************************************************************************)
EXTENDS Naturals

CONSTANTS
  Users,        \* those who have an account at the start
  Procs,        \* the requests the server executes at a time
  LastDate,     \* bound: dates are 1 .. LastDate, the last stands for 9999-12-31
  MaxPeriods,   \* bound: AUTO_INCREMENT ids the menses_periods table hands out
  NULL          \* SQL NULL, and an absent row

Dates     == 1 .. LastDate
FarFuture == LastDate
PeriodIds == 1 .. MaxPeriods

Ops       == {"create", "update", "delete"}

Period == [user : Users, start : Dates, end : Dates \cup {NULL}]

ASSUME PeriodsAssumption ==
  /\ LastDate \in Nat \ {0} /\ MaxPeriods \in Nat
  /\ NULL \notin Nat /\ NULL \notin Users /\ NULL \notin Period
  /\ NULL \notin Ops

VARIABLES
  members,      \* users not deleted
  periods,      \* periods[i]: the row, or NULL
  lastPeriod,   \* the last AUTO_INCREMENT id handed out
  req,          \* req[p]: the locals of the request p executes
  late          \* history: late[p], its user's records written since p's check

vars == <<members, periods, lastPeriod, req, late>>

Request ==
  [op    : Ops \cup {NULL},
   pc    : {"Idle", "Get", "Check", "Write"},
   user  : Users \cup {NULL},
   id    : PeriodIds \cup {NULL},     \* none (0 in the code) for create
   start : Dates \cup {NULL},
   end   : Dates \cup {NULL}]

Idle == [op |-> NULL, pc |-> "Idle",
         user |-> NULL, id |-> NULL, start |-> NULL, end |-> NULL]

LocalsOK(r) ==
  /\ r.op = NULL <=> r.pc = "Idle"
  /\ r.op # NULL => r.user # NULL
  /\ r.op \in {"update", "delete"} => r.id # NULL
  /\ r.op \in {"create", "update"} => r.start # NULL
  /\ r.op = "create" => r.id = NULL /\ r.pc # "Get"

(***************************************************************************)
(* Every statement of menses_periods.sql has user_id in its WHERE clause.  *)
(***************************************************************************)
\* Mutation: WHERE id = ?
Exists(i, u) == periods[i] # NULL

Owned(i, u) == periods[i] # NULL /\ periods[i].user = u

EndOf(end) == IF end = NULL THEN FarFuture ELSE end

\* Mutation: touching on a day is not taken for an overlap.
Crosses(a, b) == a.start < EndOf(b.end) /\ b.start < EndOf(a.end)

Overlaps(a, b) == a.start <= EndOf(b.end) /\ b.start <= EndOf(a.end)

\* No other period of the user overlaps the submitted one.
Free(r) ==
  \A i \in PeriodIds : Owned(i, r.user) /\ i # r.id => ~Overlaps(r, periods[i])

-----------------------------------------------------------------------------
Init ==
  /\ members    = Users
  /\ periods    = [i \in PeriodIds |-> NULL]
  /\ lastPeriod = 0
  /\ req        = [p \in Procs |-> Idle]
  /\ late       = [p \in Procs |-> {}]

Goto(p, label) == req' = [req EXCEPT ![p].pc = label]

Reply(p) == req' = [req EXCEPT ![p] = Idle]

\* The request p serves for u from now on.
Submit(p, op, u, id, start, end) ==
  req' = [req EXCEPT ![p] =
            [op |-> op, user |-> u, id |-> id, start |-> start, end |-> end,
             pc |-> IF op = "create" THEN "Check" ELSE "Get"]]

Arrive(p) ==
  /\ req[p].pc = "Idle"
  /\ \E u \in members :
       \/ \E start \in Dates, end \in Dates \cup {NULL} :
            \/ Submit(p, "create", u, NULL, start, end)
            \/ \E i \in 1 .. lastPeriod : Submit(p, "update", u, i, start, end)
       \/ \E i \in 1 .. lastPeriod : Submit(p, "delete", u, i, NULL, NULL)
  /\ UNCHANGED <<members, periods, lastPeriod>>

(***************************************************************************)
(* Get: Update and Delete answer 404 for a period the caller does not own. *)
(***************************************************************************)
GetPeriod(p) ==
  /\ req[p].pc = "Get"
  /\ \/ ~Owned(req[p].id, req[p].user) /\ Reply(p)
     \/ /\ Owned(req[p].id, req[p].user)
        /\ Goto(p, IF req[p].op = "update" THEN "Check" ELSE "Write")
  /\ UNCHANGED <<members, periods, lastPeriod>>

(***************************************************************************)
(* validateAndCheckOverlap: a submission that ends before it starts, or    *)
(* that overlaps a listed period, is answered with the form.               *)
(***************************************************************************)
\* Mutation: a period may end before it starts.
AnyOrder(r) == TRUE

Ordered(r) == r.end # NULL => r.start <= r.end

CheckOverlap(p) ==
  /\ req[p].pc = "Check"
  /\ IF Ordered(req[p]) /\ Free(req[p]) THEN Goto(p, "Write") ELSE Reply(p)
  /\ UNCHANGED <<members, periods, lastPeriod>>

(***************************************************************************)
(* The write, after which the response is rendered.                        *)
(***************************************************************************)
Row(r) == [user |-> r.user, start |-> r.start, end |-> r.end]

\* The foreign key needs the user to exist.
CreateMensesPeriod(p) ==
  /\ req[p].pc = "Write" /\ req[p].op = "create"
  /\ req[p].user \in members
  /\ lastPeriod < MaxPeriods
  /\ lastPeriod' = lastPeriod + 1
  /\ periods'    = [periods EXCEPT ![lastPeriod + 1] = Row(req[p])]
  /\ Reply(p)
  /\ UNCHANGED members

\* A row that has gone since Get matches nothing, which is not an error.
UpdateMensesPeriod(p) ==
  /\ req[p].pc = "Write" /\ req[p].op = "update"
  /\ periods' = [periods EXCEPT ![req[p].id] =
                   IF Owned(req[p].id, req[p].user)
                   THEN [@ EXCEPT !.start = req[p].start, !.end = req[p].end] ELSE @]
  /\ Reply(p)
  /\ UNCHANGED <<members, lastPeriod>>

DeleteMensesPeriod(p) ==
  /\ req[p].pc = "Write" /\ req[p].op = "delete"
  /\ periods' = [periods EXCEPT ![req[p].id] =
                   IF Owned(req[p].id, req[p].user) THEN NULL ELSE @]
  /\ Reply(p)
  /\ UNCHANGED <<members, lastPeriod>>

\* Any statement may fail; the handler answers 500.
Fail(p) ==
  /\ req[p].pc # "Idle"
  /\ Reply(p)
  /\ UNCHANGED <<members, periods, lastPeriod>>

\* Mutation: a foreign key without ON DELETE CASCADE.
ForgetUser(u) ==
  /\ u \in members
  /\ members' = members \ {u}
  /\ UNCHANGED <<periods, lastPeriod, req>>

\* An administrator deletes u: ON DELETE CASCADE takes the periods along.
RemoveUser(u) ==
  /\ u \in members
  /\ members' = members \ {u}
  /\ periods' = [i \in PeriodIds |-> IF Owned(i, u) THEN NULL ELSE periods[i]]
  /\ UNCHANGED <<lastPeriod, req>>

Step(p) ==
  \/ Arrive(p) \/ GetPeriod(p) \/ CheckOverlap(p)
  \/ CreateMensesPeriod(p) \/ UpdateMensesPeriod(p) \/ DeleteMensesPeriod(p)
  \/ Fail(p)

Act ==
  \/ \E p \in Procs : Step(p)
  \/ \E u \in Users : RemoveUser(u)

\* The records of u that the step writes.
Written(u) ==
  {j \in PeriodIds : periods'[j] # periods[j] /\ periods'[j] # NULL /\ periods'[j].user = u}

Noted ==
  late' = [p \in Procs |-> IF req'[p].pc = "Write" THEN late[p] \cup Written(req[p].user)
                                                  ELSE {}]

Next == Act /\ Noted

Spec == Init /\ [][Next]_vars

-----------------------------------------------------------------------------
\* Rows and locals have their types; ids beyond lastPeriod are unused and a
\* row belongs to a user who still exists (the foreign key).
MensesTypeOK ==
  /\ members    \in SUBSET Users
  /\ periods    \in [PeriodIds -> Period \cup {NULL}]
  /\ lastPeriod \in 0 .. MaxPeriods
  /\ req        \in [Procs -> Request]
  /\ late       \in [Procs -> SUBSET PeriodIds]
  /\ \A p \in Procs : LocalsOK(req[p])
  /\ \A i \in PeriodIds :
       periods[i] # NULL => i <= lastPeriod /\ periods[i].user \in members

Covers(row, day) ==
  /\ row.start <= day
  /\ row.end # NULL => day <= row.end

\* Two records of one user that both cover a day.
ShareDay(i, j) ==
  /\ i # j
  /\ periods[i] # NULL /\ periods[j] # NULL
  /\ periods[i].user = periods[j].user
  /\ \E day \in Dates : Covers(periods[i], day) /\ Covers(periods[j], day)

\* What Create and Update promise: no day lies in two recorded periods of one
\* user, an open period reaching as far as dates go.
OneRecordPerDay == \A i, j \in PeriodIds : ~ShareDay(i, j)

OverlapStep ==
  \A i, j \in PeriodIds :
    periods'[i] # periods[i] /\ ShareDay(i, j)' =>
      \E p \in Procs : /\ req[p].pc = "Write" /\ req'[p].pc = "Idle"
                       /\ req[p].user = periods'[i].user
                       /\ j \in late[p]

\* Create and Update of services/menses_admin.go, with any other requests under
\* way: a record that is written shares no day with another of its user, unless
\* that other one was itself written after this request had checked.
OverlapsOnlyRaced == [][OverlapStep]_vars

OwnRecordsStep ==
  \A i \in PeriodIds :
    periods[i] # NULL /\ periods'[i] # periods[i] =>
      \/ /\ periods'[i] # NULL => periods'[i].user = periods[i].user
         /\ \E p \in Procs : /\ req[p].user = periods[i].user
                             /\ req[p].pc = "Write" /\ req'[p].pc = "Idle"
      \/ periods'[i] = NULL /\ periods[i].user \notin members'

\* A user's records are changed by that user's own requests, or go with the
\* account; nobody is handed the record of somebody else.
OwnRecordsOnly == [][OwnRecordsStep]_vars

\* The rows, whatever their ids.
Recorded == {periods[i] : i \in {j \in PeriodIds : periods[j] # NULL}}

\* The tracker on one day, before there are tasks.
OneStep == INSTANCE Tracker WITH
  MaxTasks    <- 0,
  Days        <- {1},
  Back        <- 0,
  Ahead       <- LastDate - 1,
  Forms       <- {},
  Catalogs    <- {[rows |-> << >>, done |-> {}, days |-> {1}]},
  today       <- 1,
  tasks       <- << >>,
  lastTask    <- 0,
  completions <- {},
  schedules   <- << >>,
  settings    <- [weekStart |-> 6, weeks |-> 1],
  adopted     <- {[weekStart |-> 6, weeks |-> 1]},
  periods     <- Recorded

\* What a request checks in one statement and writes in another, while the rows
\* change and the account may go, takes effect at once: a period is recorded,
\* changed or deleted as Tracker says, its owner has an account, and it never
\* ends before it starts (Create, Update and Delete of
\* services/menses_admin.go; of periods that cross, see OverlapsOnlyRaced).
PeriodsImplementTracker == OneStep!TrackerSpec
=============================================================================
