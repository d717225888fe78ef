# A TLA+ model of mutabaah

mutabaah is a Go web application in which the members of a group tick off
recurring tasks; administrators manage tasks and users, and everybody sees
reports and a leaderboard. It is a monolith: chi handlers
(`src/internal/handlers`) call services (`src/internal/services`), which issue
SQL statements (`src/db/queries`, compiled by sqlc into
`src/internal/repository`) against MySQL.

Two facts shape every hard behaviour of this program, and every module here:

* **every request is a goroutine of its own**, so requests run concurrently,
  also requests with the same cookie or the same mailed token;
* **no code path opens a transaction.** An operation of several statements can be
  interleaved between any two of them, and when a statement fails, the client
  hangs up (the request context is cancelled) or the server dies, the statements
  before it stay done.

The repository's tests run one request at a time against in-memory fakes that do
not fail half way, so they reach none of this. That is what the model is for.

A third fact concerns the pages: **dashboard, calendar, reports and leaderboard
each work out statuses, totals, weeks and streaks with code of their own**, over
the same rows. The model says where they must agree, and checks it around the
dates on which such code goes wrong.

## 1. Inventory

| component | state | operations | what is hard, and what makes it correct |
|---|---|---|---|
| accounts store: `users.sql`, `sessions.sql`, `password_reset_tokens.sql` and their migrations | three tables, foreign keys with cascades | one SQL statement each | cascades remove sessions and tokens of a deleted user, also the sessions it impersonates from |
| session resolution and gates: `middleware/auth.go` | none; the user row, session id and impersonator put in the request context | `LoadUser`, `RequireAuth`, `RequireAdmin` | up to three reads and a delete before the handler starts; what they read is stale afterwards |
| authentication and impersonation: `services/auth.go`, `handlers/auth.go` | rows of `sessions`, the browser's cookie | `Login`, `Logout`, `StartImpersonation`, `StopImpersonation` | rotation inserts before it deletes; sessions must never drift to another person |
| user administration: `services/user_admin.go`, `handlers/settings_users.go`, `handlers/profile.go` | rows of `users` | `Create`, `Update`, `Delete`, `ChangePassword` (`ResetCompletions` belongs to completions) | an administrator must remain; password change and deactivation must end sessions |
| password reset: `services/password_reset.go` | rows of `password_reset_tokens`, mails | `RequestReset`, `ResetPassword` | a token works once, whatever races and fails |
| task administration: `services/task_admin.go` | rows of `tasks` with a display sequence | `Create`, `Update`, `Delete`, `SetActive`, `Move` | `Move` rewrites all sequences with one UPDATE each |
| occurrences and completions: `services/tasks.go`, `week.go`, dashboard and calendar handlers | rows of `task_completions` | `Toggle`, `ResetCompletions`, `OccurrencesBetweenAsOf`, week summary | check-then-act toggle; date arithmetic; three reads that are not one snapshot; exemption hides but keeps completions |
| menses periods: `services/menses_admin.go`, `handlers/profile.go` | rows of `menses_periods` | `Create`, `Update`, `Delete` | periods of a user must not overlap; the check and the write are two statements |
| reports and leaderboard: `handlers/reports.go`, `handlers/leaderboard.go` | none | week and date parameters, bars, matrices, streaks, ranking | edges of ranges, ISO weeks against configured weeks, zero denominators, ties; numbers that other pages show too |
| rate limiter: `middleware/ratelimit.go` | a map of token buckets under a mutex | `allow`, `sweepLoop` | sweeping must not hand out tokens early |
| avatar upload: `handlers/profile.go`, `imageutil/avatar.go` | files on disk, `users.avatar_path` | `UploadPicture` | files and row change in separate steps |
| CSRF: `middleware/csrf.go`, `services/auth.go` | none (keyed hash of the session id) | check of every POST with a session | no state |
| application settings: `services/app_settings.go` | one row per key | `Get`, `Update` | every week, report and reset window is computed from them, at a moment of its own |
| templates: the script of `layout.html` | the page in the browser | puts the fragments that answer a toggle into the page | a page patched again and again must look like a reload |
| mailer, PDF export, other templates, flash, error pages, logging, security headers, configuration, server start | none, or I/O only | | not modelled (section 7) |

How they interact: a request passes `LoadUser`, `CSRF` and the gates, then its
handler calls one service operation. The components share only the database.
User administration and password reset write the rows that session resolution
reads, and both delete sessions that login and impersonation insert; this is why
they are modelled together. Tasks, completions, periods and settings form the second
group: the resolver of occurrences reads the first three in three statements and
every page is built on it, while the task administration, toggles, resets and the
deletion of accounts write them. The rate limiter stands before three public
routes and shares nothing with the rest; an avatar upload shares the row of its
user with user administration, and the file system with other uploads.

## 2. Modules

| module | models | code |
|---|---|---|
| `Store` | the tables, and one operator per SQL statement | `db/queries/{users,sessions,password_reset_tokens}.sql`, migrations 1, 5, 14, 16, 17 |
| `Requests` | requests as processes, arrivals, `LoadUser`, the gates, failure | `middleware/auth.go`, `services/auth.go` (`LookupSessionInfo`), routes in `cmd/server/main.go` |
| `Auth` | login, logout, starting and stopping an impersonation | `services/auth.go`, `handlers/auth.go` |
| `UserAdmin` | create, update, delete, change password | `services/user_admin.go`, `handlers/settings_users.go`, `handlers/profile.go` |
| `PasswordReset` | request and use of a reset token | `services/password_reset.go` |
| `Accounts` | all of them over one store; the properties | `cmd/server/main.go`, `cmd/seed/main.go` |
| `MCAccounts` | small instances for TLC | |
| `AccountsProofs` | type correctness and the safety theorems, for TLAPS | |
| `MensesPeriods` | periods created, updated and deleted by concurrent requests; accounts deleted under them | `services/menses_admin.go`, `handlers/profile.go`, `db/queries/menses_periods.sql`, migration 12 |
| `MCMenses` | small instances for TLC | |
| `MensesProofs` | its theorems, for TLAPS | |
| `Dates` | calendar dates, weeks that start on the configured day, history windows, ISO weeks | `services/week.go`, `handlers/reports.go`; Go's `time` |
| `Schedule` | `occurrenceDates`, statuses, `buildOccurrences` | `services/tasks.go` |
| `Tables` | tasks, completions, periods, settings: one operator per SQL statement, and the reads pages are built from | `db/queries/{tasks,task_completions,menses_periods,app_settings}.sql`, `services/app_settings.go`, `services/tasks.go` |
| `Tracker` | what the tracker promises: each operation in one step | `services/tasks.go`, `services/task_admin.go`, `handlers/settings_users.go` |
| `Tasks` | the requests behind it, one statement per step | `services/tasks.go`, `services/task_admin.go`, `services/user_admin.go`, `handlers/dashboard.go`, `handlers/settings_tasks.go`, `handlers/settings_users.go` |
| `Dashboard` | the page, its statistics and its missed section; the fragments that answer a toggle | `handlers/dashboard.go` |
| `Script` | the script that applies the fragments to a page | `web/templates/layout.html` |
| `Calendar` | the grid of a month with its heat map, the panel of a day | `handlers/calendar.go` |
| `Reports` | weeks of a month, bars, the matrix of one user and of many, the parameters | `handlers/reports.go` |
| `Leaderboard` | scores, streaks, order and ranks of a week or a month | `handlers/leaderboard.go` |
| `Pages` | the four pages over the states of `Tracker`; the properties that relate them | |
| `Meter` | what the rate limiter promises | `middleware/ratelimit.go` |
| `RateLimiter` | buckets refilled late and swept | `middleware/ratelimit.go` |
| `Avatar` | concurrent uploads of pictures | `handlers/profile.go`, `imageutil/avatar.go`, `users.sql` |
| `MCTasks`, `MCPages`, `MCRateLimiter`, `MCAvatar` | small instances for TLC | |
| `TrackerProofs` | the calendar and the schedules; the tables, for TLAPS | |
| `PagesProofs` | on it: the theorems about weeks, calendar, leaderboard, streaks and fragments | |
| `ReportsProofs` | on it: the theorems about sums, which relate the pages and the reports | |
| `TasksProofs`, `RateLimiterProofs`, `AvatarProofs` | theorems of these modules, for TLAPS | |

`Requests` EXTENDS `Store`; `Auth` and `UserAdmin` EXTEND `Requests`;
`PasswordReset` EXTENDS `UserAdmin` (it shares the password write and the
revocation); `Accounts` composes them. `MensesPeriods` shares with `Accounts` only the
deletion of an account, which it has as `RemoveUser`, and takes session resolution,
which its routes go through, as done.

`Schedule` EXTENDS `Dates`, and `Tables` EXTENDS `Schedule`. On `Tables` stand
`Tracker`, the abstract specification, and the pages `Dashboard` (with `Script`), `Calendar`,
`Reports` and, on `Reports`, `Leaderboard`. `Pages` composes the pages with
`Tracker`; `Tasks` EXTENDS `Tracker` and implements it. So the pages are checked in
the states of the short specification, and the theorem that `Tasks` implements it
carries over to the requests what `Tracker` says of the tables. `MensesPeriods`
implements `Tracker` too, on the table of periods (`OneStep`, an INSTANCE of it on one
day and without tasks): this is what entitles `Tasks` and `Pages` to record, change and
delete a period in one step. `RateLimiter`
implements `Meter` through `INSTANCE Meter WITH credit <- ...`. `RateLimiter` and
`Avatar` share nothing with the others; `Avatar` has the deletion of an account as
`DeleteUser`. All of them take session resolution and the gates as done.

### State

* `users`, `sessions`, `tokens` are functions from ids to rows or `NULL`;
  `lastUser`, `lastSession`, `lastToken` are the ids handed out so far. Session
  and reset tokens are random in the code and numbers here: all that matters is
  that none is handed out twice.
* A user row keeps `role` and `active`. Names, addresses and hashes are left out.
  Of a password the properties only need to know *when* it was changed, so there
  is a `clock` that counts the writes meant to end a user's sessions (a new
  password, a deactivation).
* `req[p]` holds the locals of the request process `p` is executing: operation,
  program counter (named after the SQL statement that comes next), session
  cookie, the user and impersonator in the context, the target and the submitted
  form, the row last read (`seen`). One step executes at most one SQL statement
  together with the Go code up to the next one.
* `cookies` and `mailed` are what clients can present: session tokens answered to
  some browser (they stay usable as cookies for ever, valid or not), reset tokens
  that reached a mailbox.
* In `MensesPeriods`, `periods` maps ids to rows, `members` is the set of accounts
  that exist, and `req[p]` again holds a request's locals. Dates are numbers, the
  last of them standing for 9999-12-31, which the code takes for the end of an open
  period. Parsing errors are left out: they end the request without a statement, as
  a form that ends before it starts does.
* `origin`, `secured`, `spent` and `req[p].tick` are history variables. No guard
  depends on them; the one constraint they bring is the bound on `clock`.
  `origin[s]` records who logged in at the start of the chain of rotations that
  led to `s`, the clock at which that login read the user's row, and the clock at
  which the row of `s` was inserted. `secured[u]` is the clock of the last
  revoking write of `u` whose `DeleteUserSessions` has been executed too.
* A date is the number of days since 1 January 1970, as `dateOnly` makes of every
  time a midnight in UTC. Months are numbered through, so that the one after
  December needs no case of its own. Lists of occurrences are sets, sorted only
  where a page shows their order; a title is a number, as titles are only compared.
* In `Tables`, `tasks`, `completions`, `periods` and `settings` are the tables,
  `today` the date in the application's time zone, `members` the accounts.
  `schedules[i]`, a history variable, collects the schedules task `i` had while it was
  active: a toggle may write after the task it looked at was changed, and all that
  can then be said of the date is that the task *was* due on it.
* In `Tasks`, `req[p]` is the request under way, a record with the locals of its
  operation, or `NULL`; `quiet[p]`, a history variable, says that since the request of
  `p` arrived nobody else has changed the rows its answer depends on (`Concern`): for a
  toggle, the settings, the timetable of its task, the periods of its user and the
  completion; for a move, which tasks there are and their numbers.
* `late[p]` in `MensesPeriods` and `overtaken[p]` in `Accounts` are history variables of the
  same kind: which records of its user were written since the request of `p` checked,
  and whether others changed what it judges a removal by since it read or counted.
  `adopted` in `Tables` collects the settings that are or were in force.
* In `RateLimiter` time passes in ticks and tokens are counted in ticks, `RefillPer` to
  the request. `buckets[k]` has the tokens and the age of the last request; `phase`,
  `fired` and `cutoff` are the ticker, its channel of capacity one, and the local of
  the sweeper while it waits for the lock. `answer` and `window` are history: what the
  last request was told, and a count of what one client was allowed since some moment.
* In `Avatar`, `rows[u]` is `users.avatar_path`, `files` the directory, `used` the names
  drawn. `lost` (names whose removal was begun by an upload that failed before its
  UPDATE) and `disturbed` (users of whom an upload failed or met another, or who left)
  are history.

### Actions that deserve a word

* `Fail` ends a request at any point and undoes nothing. It stands for an error of
  a statement, a rejected INSERT (a foreign key whose parent was deleted, a taken
  address), a cancelled context, and, applied to every request, a crash.
  Operations ignore no error that they could hide from this, except that
  `LookupSessionInfo` and `StopImpersonation` ignore the error of their own
  `DeleteSession`; the answer is a refusal either way.
* `LoginGetUser` chooses freely whether the password matched: the model lets
  whoever knows it try, and separately lets the attempt be wrong.
* `ExpireSession` and `ExpireToken` let a row pass its `expires_at` at any moment.
  A row past it is invisible to `GetSession`, so the model drops expired sessions;
  an expired token is still visible to `MarkPasswordResetTokenUsed`, so it stays.
* `CreateCheckEmail`, `UpdateCheckEmail` and the password checks choose freely
  between rejecting and accepting the input.
* Requests on public routes arrive without a cookie. With one, `LoadUser` would
  run first, which the other operations show.
* `Tracker` has one action per operation, except that `Move` is a `Renumber` for each
  task, and that a double submit is a `Resubmit`: the second request looked before the
  first one wrote, and its INSERT ... ON DUPLICATE KEY UPDATE only stamps the row.
* In `Tasks`, a toggle lists the active tasks, looks the completion up, writes, reads
  the row back and, if the browser asked for fragments, goes through `buildInner`: the
  clock again (`ReadClock`), the settings, the clock once more for the window of the history
  (`ReadHistory`), and tasks, completions and periods in three statements. The row
  is looked for in the section of today if its date is the one the handler took at the
  start, else among the missed ones (`InSection`); where it is not, the answer removes
  it or sends a hidden one (`shown` is then `NULL`). Only the reads that decide on
  the toggled row are modelled: those for the other section and the statistics are
  left out here (`Dashboard` has them, in one state). `Move` reads the list and then
  writes one number per step.
  `ResetCompletions` computes its window from the settings and the clock, then checks
  the user, then deletes.
* `Others` stands for the requests that other modules model statement by statement:
  recording, changing and deleting periods, saving settings, deleting an account. Here
  each is one step that may happen between any two statements.
* `Midnight` passes while requests are under way. Bound: a request is answered by the
  end of the day after it arrived.
* `Fail` in `Tasks` and `Avatar` is as above. In `Avatar`, an error of `os.Remove` is not a
  failure, the handler logs it and goes on: `KeepOriginal` and `KeepThumb`.
* `Wake` and `Sweep` are two actions, for the sweeper computes its cutoff before it
  calls `Lock`; requests are served and time passes in between.

## 3. Properties

* `TypeOK`: types, and that every request holds the locals its next statement
  reads (no handler uses a user, target, form or row that was not set).
* `ActiveAdminRemains`: some active administrator exists. Promised by
  `ErrLastAdmin`, and **false** (section 6).
* `LastAdminOnlyOvertaken` (action property): what `ErrLastAdmin` does achieve, with any
  requests at once. A step that leaves no active administrator is the write of a
  request that another has overtaken: since it read its row its target ceased to be, or
  became, an active administrator, or since it counted others did. So an undisturbed
  removal of the last one is refused, and so is one that is only disturbed by logins,
  resets, new accounts or failures.
* `NoSelfRemoval` (action property): with any requests at once, a request does not delete
  the account it acts as, nor deactivate it if it has read it as active. The two guards
  are in different layers (the handler of Delete, the service of Update), and both look at
  what was read earlier. The condition is the one of the code: an account that was
  inactive when Update read it, and was activated meanwhile, is deactivated again.
* `PrincipalKept`: the person behind a session (its impersonator, or else its
  user) is the one whose login opened the chain of sessions it descends from.
* `OldSessionsRevoked`: after a password change or a deactivation has executed its
  `DeleteUserSessions`, no session row inserted before the write is left for that
  user, as user or as impersonator. It covers the failure in between: until the
  DELETE has run nothing is promised.
* `OpenedWithCurrentPassword`: the stronger promise of the comments, that the
  session's holder knew the current password. **False** (section 6).
* `TokenSpentOnce`: a reset token writes at most one password, and has been used up
  (or purged) by then.
* `MensesTypeOK`: types and locals of `MensesPeriods`, and that a row's owner exists.
* `OneRecordPerDay`: no day lies in two recorded periods of one user. Promised by a
  comment, and **false** (section 6).
* `OverlapsOnlyRaced` (action property): whatever requests are under way, also of one user,
  a record that is written shares a day with another one of its user only if that other
  one was itself written between the check of this request and its write. It is stated
  with days, and so says that the comparison of closed and open ranges in the code is
  the right one, also when an update moves a period next to its neighbours.
* `OwnRecordsOnly` (action property): a row is changed or removed only by the write of
  a request of its owner, or together with the owner's account, and keeps its owner.
* `PeriodsImplementTracker`: seen as a set of rows, `periods` changes as the one-step
  operations of `Tracker` say, although each request checks in one statement and writes
  in another, while rows change and accounts go. It also says that no period ends before
  it starts. Of overlaps `Tracker` says nothing, so that the pages are checked with
  overlapping periods too.

Of the tables and the pages, in every state of `Tracker` (`Pages`):

* `TablesTypeOK`: types, and the keys: a completion belongs to a user and a task that
  exist, and there is one for each task, user and date.
* `OccurrencesMatchSchedule`: the four loops of `occurrenceDates` enumerate exactly the
  dates of the range that repeat the start date (`DueOn`, a definition without loops).
* `BarsPartitionMonth`: every occurrence that counts is in exactly one bar of its month,
  bars start on the configured day and are no longer than a week.
* `ReportsAddUp`: what an administrator sees of all users is the sum of what each of
  them sees, in totals, bars and cells.
* `PagesAgree`: dashboard, report, leaderboard and calendar show the same numbers for
  the current week; only the report adds what was completed ahead of its date.
* `StreaksAgree`: the streak of the dashboard, as far as it lies in the month, is found
  by the leaderboard too, unless a day is wholly exempt (section 6).
* `RanksFair`: a rank is one more than the number of users with a better score.
* `GridShowsMonth`: the grid consists of whole weeks, each day of the month once, under
  the right heads, and its cells agree with the panel of the day.
* `WeekPickerAgrees`: the week on display can be asked for again, by its date and, where
  the configured start allows it, by its ISO number.
* `FragmentsMatchReload`: a page that is up to date is so again when a row is toggled and
  the fragments of the answer are applied, for every row that can be toggled.

Of the requests (`Tasks`):

* `TasksTypeOK`: the same of `Tables` with requests under way, and their locals.
* `ImplementsTracker`: whatever requests are served at once, and wherever they fail, each
  step is one of `Tracker` or changes no table: a row is written only for a user and a
  task that exist, on a date the task was due on; erased only within the history window of
  settings that are or were in force (`adopted`), as of today or yesterday.
* `AnswerShowsToggle`: a toggle whose own rows nobody else touches (`quiet`) answers with the
  opposite of what it found, or as exempt; without a row only if the row is exempt,
  ceased at midnight to be one of today's, or lies outside the window of the
  history as of some day between the two readings of the clock (`MayHide`). Other users,
  other tasks, other dates and midnight may come in between any two of its statements.
* `MoveExchanges`: a move while nobody else numbers, creates or deletes a task exchanges two
  neighbours, leaves the others in place, whatever numbers they had, ties included, and
  numbers the list 10, 20, 30 and so on: what an earlier race has mixed is in order again.
* `RequestsAnswered` (liveness): every request is answered; no error makes one start again.

Of the rate limiter:

* `ImplementsMeter`: adding tokens late and forgetting buckets admits and refuses exactly
  what a meter would that is raised at every tick and never forgotten.
* `BudgetKept`: over any stretch of time a client makes at most `Burst` requests more than
  `RefillPer` goes into it.
* `ClientsForgotten` (liveness): a client that stops asking leaves the map.
* `LimiterTypeOK`: types, and that tokens stay between none and the burst.

Of the avatars:

* `PictureOnDisk`: a row names files that are there, except while an upload is between
  their removal and its UPDATE, and for good if it failed there. So no *interleaving*
  breaks a picture; only that failure does.
* `NothingLeftBehind`: a user whose uploads came one after another and succeeded has the
  two files of the present picture, and no others.
* `AvatarTypeOK`: types, and that an account that is gone has no picture.

## 4. Runs

The first table is of `MCAccounts`, the second of `MCMenses`; each of the other
modules has one run. Deadlock is checked except in `MCMenses` and `MCAvatar`, where
nobody is left to ask for anything once all accounts are deleted, and in `MCTasks`,
where the number of requests is bounded.

Fairness is assumed in two runs. In `tasks`, `WF_req(Serve(p))`: Go's scheduler runs
every goroutine, and a statement is answered, with a result or an error. It is of
`req` and not of all variables, so that a step that only repeats itself would not count
as an answer. In `limiter`, `WF` of `Tick`, `Wake` and `Sweep`: time passes, and the
sweeper gets the processor and the lock, which every other holder gives back at once.
Nothing is assumed of clients. The other runs assume none and state no liveness: the
code of these operations waits for nothing and retries nothing.

| run | processes | users / sessions / tokens / clock | operations | shows |
|---|---|---|---|---|
| `all` | 1 | 2 / 2 / 1 / 1 | all | `TypeOK`, `OldSessionsRevoked`, all operations in any order, failing anywhere |
| `removals` | 2 | 2 / 1 / 0 / 1 | login, update, delete | `LastAdminOnlyOvertaken`, `NoSelfRemoval` |
| `sessions` | 2 | 2 / 3 / 0 / 0 | login, logout, start and stop impersonation | `PrincipalKept` |
| `resets` | 2 | 2 / 1 / 2 / 2 | login, forgot, reset | `TokenSpentOnce`, `OldSessionsRevoked` under concurrency |
| `last_admin` | 2 | 2 / 2 / 0 / 1 | login, update, delete | violation of `ActiveAdminRemains` |
| `stale_login` | 2 | 1 / 2 / 0 / 1 | login, change password | violation of `OpenedWithCurrentPassword` |

| run | processes | users / dates / ids | shows |
|---|---|---|---|
| `periods` | 2 | 2 / 3 / 2 | `MensesTypeOK`, `OverlapsOnlyRaced`, `OwnRecordsOnly`, `PeriodsImplementTracker` |
| `overlap` | 2 | 1 / 2 / 2 | violation of `OneRecordPerDay` |

Why the bounds are enough. Two users are what impersonation and the
last-administrator rule need: in `removals` one session serves both requests,
each update may demote, deactivate or promote either user, and a race of two removals,
of a removal and a promotion, or with an account that goes meanwhile is reached. A nested
impersonation that goes wrong needs three sessions (a login, a rotation, a second
rotation), which `sessions` has. In `resets`, two tokens let two requests present
the same token or different ones, and a clock of 2 lets two password writes be in
flight, so that a revocation can be late; with one token or one write the
interesting races are gone. A token that a mutant of `Markable` lets through twice
needs two processes and both writes. Every property is falsified in these bounds
by at least one plausible change of the code (the operators commented `Mutation`).
Processes are interchangeable, and the runs with two use that symmetry; no
liveness is checked under it. Users are not: user 1 is the seeded administrator.

| run | instance | distinct states | shows |
|---|---|---|---|
| `tasks` | 2 processes, 1 user, 3 tasks and room for one, 2 requests in all, 2 dates | 115,708 | `TasksTypeOK`, `AnswerShowsToggle`, `MoveExchanges`, `ImplementsTracker`, `RequestsAnswered` |
| `pages` | 2 users, 2 tasks and room for one, 3 catalogs, 4 dates, effort 3 | 3,083 | `TablesTypeOK` and the nine properties of `Pages` |
| `limiter` | 2 clients, burst 2, a token every 2 ticks, sweep every 3, idle 4, wait 1, span 4 | 170,439 | `LimiterTypeOK`, `BudgetKept`, `ImplementsMeter`, `ClientsForgotten` |
| `avatar` | 2 processes, 2 users, 3 names each, 4 uploads accepted | 260,424 | `AvatarTypeOK`, `PictureOnDisk`, `NothingLeftBehind` |

In `tasks`, two requests are what a race needs, and each may be any of the seven
operations or a statement of `Others`; what three would add is covered by the theorems,
which hold for any number. Three tasks that all have the number 0, as after the
migration, make `Move` write all three numbers and let it break ties; one task is due
daily and exempt during menses, one weekly, one daily, so that a toggle is refused,
hidden or shown. The room for a fourth lets `CreateTask` happen while a move or a
toggle is under way. Days are the Saturday on which a week starts by default and the Sunday
after it, Back is 1 and Ahead 0: requests name yesterday or today, and midnight may pass
while one is served, which also moves the history window of a reset. The settings may
change to weeks that start on Friday. So the answer to a toggle of Friday is a hidden row by
the one and a row by the other; one of Saturday loses its place if midnight comes before the
page is built. A third process only adds requests that wait.

In `pages`, the dates are 29 February, 1 March, 31 December and 1 March of a year
without a leap day. With each goes a task that repeats on the day that is missing in
other months or years: monthly from 31 January, yearly from 29 February, weekly with a
last date. Five settings are tried, the default and one change from it, to weeks that
start on one of four days, among them Wednesday, which ISO weeks disagree with. `Effort` bounds how far a state is from what was
entered before: three completions, or one completion and one thing an administrator does.
Two users have names that are equal but for their case, for the ranking to be decided by
the last criterion. Users are not interchangeable here, as ranks depend on their names.

In `limiter`, the intervals keep the order they have in `main.go` and `ratelimit.go`: a full
refill (4 ticks there, a minute in the code) takes no longer than the idle time (30
minutes), which `LimiterAssumption` requires and the theorems need. The sweep interval is no
multiple of the refill interval, so that sweeps fall at every phase of a refill. Symmetry
is not used, for the sake of liveness.

In `avatar`, three names of one user are an old picture and two uploads that race to
replace it; a fourth upload lets the other user have one, or the first continue after
a race. Names and processes are interchangeable.

In `periods`, two dates and the far future, which nobody submits, let two ranges be
apart, touch, contain each other or be open; two ids are the fewest for an overlap, with
either user owning either row; two processes and two users give every interleaving of
a check and a write with those of the same user or of another, and with the deletion of
either account. A third id only adds rows that the check treats alike, and the
theorems cover the rest. Users are interchangeable here, as processes are.

Bounds of the model: `MaxUsers`, `MaxSessions`, `MaxTokens` end the supply of ids
(an INSERT beyond them does not happen, and the request can only fail), and
`MaxClock` ends that of revoking writes; `MaxTasks` and `MaxPeriods` do the same in
`Tables`, `MaxAsked` for requests in `MCTasks` and `MaxAccepted` for uploads in `MCAvatar`.
`Days`, `Back` and `Ahead` bound the dates that are reached and named, `Forms` and `Catalogs`
the rows; `Wait` bounds how long the sweeper waits, `Span` how long requests are counted.

## 5. Proofs

TLAPS checks thirty-two theorems in eight modules (and the lemmas they rest on). They hold for any set of processes,
any set of operations, any users, tasks, dates and intervals, and any bounds: the
assumptions are only that bounds are numbers, that `NULL` is no row and no id, that
the database starts with rows of the right type and an administrator, for the
rate limiter, that a bucket fills up before it may be swept, and for the pages, that users
are finitely many and the dates on which the program is looked at come after 1970
(`BoundsAssumption`, `NullAssumption`, `OpsAssumption`, `FormAssumption`, `SeededAssumption`,
`PeriodsAssumption`, `TablesAssumption`, `TasksAssumption`, `LimiterAssumption`,
`AvatarAssumption`, `RowsAssumption`, `NamesAssumption`, `ClockAssumption`). Every safety
property that a passing run checks is a theorem.

**`TypeCorrect`** (`AccountsProofs`): `Spec => []TypeOK`. `TypeOK` is not inductive:
`RotateTo` copies fields of `origin[req[p].sid]`, which must be an `Origin` and
not `NULL`, and `CreateSession` writes at `lastSession + 1`. `TypeInv` adds that
exactly the tokens up to `lastSession` have an origin, that only tokens handed out
have rows or have been spent, that every token a request or a client holds was
handed out, and that rows only exist for ids handed out. The proof has a lemma for
each shape of change to a request's locals, one for each statement, then one per
group of actions, and one case per action in it.

**`OldSessionsStayRevoked`** (`AccountsProofs`): `Spec => []OldSessionsRevoked`.
`EverySessionStep` first reduces the forty-odd actions to three kinds of step for
the sessions table: rows are only removed, one row is inserted with the present
clock, or a user is revoked. `RevocationInv` adds that no `secured[u]` and no
`tick` of a request lies in the future of `clock`, which makes a new row satisfy
the property; a `Revoke` removes every row of its user, so that raising
`secured[u]` disturbs nothing.

**`SessionsKeepTheirPrincipal`**: `Spec => []PrincipalKept`. The insertion of a
rotated session uses locals that were read several statements ago, when the
presented session may have been deleted since. `ChainInv` says of the locals what
was true when they were read, and of `origin`, which is never overwritten: after
`GetSession` the presented token's origin is the principal of the row read; before
a stop inserts, its target is that principal; before a start inserts, the context
has no impersonator.

**`TokensAreSpentOnce`**: `Spec => []TokenSpentOnce`. `ResetInv` adds that a request
between `MarkPasswordResetTokenUsed` and `UpdateUserPassword` holds an unspent
token that nobody can mark any more, and that two such requests hold different
tokens. The row count of the UPDATE is what makes the step into that state
exclusive.

**`MensesTypeCorrect`** (`MensesProofs`): `Spec => []MensesTypeOK`, which is inductive
as it stands.

**`RecordsStayPrivate`**: `Spec => OwnRecordsOnly`. From
`MensesTypeOK`, an INSERT uses an id without a row; an UPDATE or DELETE touches the
row only if it is owned by the user of the request.

**`RecordsOverlapOnlyWhenRaced`**: `Spec => OverlapsOnlyRaced`. The invariant is `Checked`: a request
about to write a period has dates in order, and overlaps no record of its user but
those in `late`. A step of another request either leaves a record as it was, or puts
its id into `late` (`NotLate`); a deletion only removes records. From the comparison of ends
to days goes the last step, `OverlapsStep`.

**`PeriodsAreRecordedInOneStep`**: `Spec => PeriodsImplementTracker`. The refinement mapping is
`Recorded`, the set of rows without their ids. Two requests at once may record the same
row twice, which as a set is once. So an UPDATE or a DELETE of one of the two adds a
row, or nothing, where it otherwise replaces or removes one; `RoomOfTwin` says that there is
room for the row that is added, because two ids share a row.

**`LastAdminsAreOvertaken`** and **`NobodyRemovesThemselves`** (`AccountsProofs`): `Spec => LastAdminOnlyOvertaken`
and `Spec => NoSelfRemoval`, for any requests at once. `RemovalInv` says that what a removal
has read and counted is still so when it writes unless it was overtaken (`Fresh`), that
its guard has kept it from its own account (`NotItself`, which speaks of its locals only and
so is disturbed by nobody), and that rows only exist for ids handed out, so that a new
row replaces no administrator. The step from a count greater than one to an administrator
who remains is `AnotherAdmin`, on cardinalities.

**`TrackerTablesCorrect`** (`TrackerProofs`) and **`TasksTablesCorrect`** (`TasksProofs`): the tables are
typed and their keys hold, in every state of either specification. Each statement has a
lemma of its own in `TrackerProofs`, which also says that `schedules` only grows (`Kept`).

**`TasksImplementTracker`** (`TasksProofs`): `Spec => ImplementsTracker`. The invariant adds to the
types that every request is `Sound`: what it has read still entitles it to what it is
about to write. A toggle past its first statement names a date in `schedules`, which
other requests can only add to; a reset at its DELETE names dates in a window computed
from settings and a day that were those at some moment since the request arrived; the day
is that of the arrival or the next. The refinement mapping is the identity on the tables.
There is one lemma per kind of request, and every write is matched with the action of
`Tracker` it implements; a toggle's write is `Toggle` or `Resubmit` by whether the row is there.

**`TogglesShowTheirEffect`** (`TasksProofs`): `Spec => []AnswerShowsToggle`. For quiet requests,
`Finds` says of each stage what the tables hold: the row is absent before `Mark`, present
after it; the timetable, the settings and the completion read for the page are those of now;
the section starts where the window of the history started on some day since the
request's (`Ranged`). `StillFinds` is why steps of others leave this true: a quiet request is
one whose concern they did not touch. The occurrence on the page then has the status
`buildOccurrences` gives it, and where there is none, `MayHide` holds.

**`MovesExchangeNeighbours`** (`TasksProofs`): `Spec => []MoveExchanges`. For quiet moves, `Orders` says that
`goal` lists every task once, and that every place no longer to be numbered holds ten
times its place. When none is left, numbers along `goal` increase strictly, and
`TrackerProofs` concludes that ORDER BY lists the tasks in that order (`ListedAsNumbered`, by
counting the tasks before each: `Places`, `ListPlaces`).

**`LimiterTypeCorrect`**, **`LimiterKeepsBudget`**, **`LimiterImplementsMeter`** (`RateLimiterProofs`): the
refinement maps `credit[k]` to `Refilled(k)`, what `allow` would find now. A sweep keeps it,
because what is older than the cutoff is older than `Idle`, hence full. The budget needs
`Accounts`: what was spent in a window and what is left was there at its start or has
come since.

**`AvatarTypeCorrect`**, **`PicturesStayOnDisk`**, **`UploadsLeaveNothingBehind`** (`AvatarProofs`): the
invariant says what files each stage of an upload has written (`Stages`), that its new
name occurs nowhere else before its UPDATE (`OwnName`, `NotPublished`), and that a row
names a picture of its own user (`OwnRow`). For the third, `Tidy` says which files an
undisturbed user has at each stage of the one upload under way.

**`RequestsTyped`** (`TasksProofs`): `Spec => []TasksTypeOK`. What a request is about determines
which locals it has and where they come from: what a toggle shows is the status of an
occurrence or nothing, its section starts on a date, and the list of a move is a list of ids.
`TypedStep` goes through the statements; the invariant is the conjunction with that of the theorems
above.

### The pages

The remaining theorems are about `Tracker`, and are of one form: what the property says of a
state follows from `TablesTypeOK`, which `TrackerTablesCorrect` establishes in every state. The
work is in the second half, because the pages are computed by loops. Loops are
recursive functions here, and a recursive function is the CHOOSE of its equation. So the
proofs state in closed form what a loop computes, show that this solves the equation, and
show that no other function does: of the arguments at which two solutions differ, the one
nearest to the end of the loop would be one at which they agree (`LeastNat`, `Downwards`,
`AllDownwards`; `LeastNat` is the library's theorem that `<` is well founded).

**`OccurrencesAreDue`** (`TrackerProofs`): for every task and every range of dates,
`occurrenceDates` yields the dates of the range that repeat the start date. Under it lies the
calendar: `YearOf` and `MonthOfDay` say that `Year` and `MonthOf` name the year and the month
in which a day lies, for every day past or future, `MonthIs` that there is one such month, and
`MonthLengths` that it has 28 to 31 days. `LaterMonth` is why a loop may stop at its first
date past the range; `MonthlyRepeats` and `YearlyRepeats` are the loops that skip months
without the day and years without 29 February. **`SchedulesMatched`** (`PagesProofs`) applies
it to the tasks of every state.

**`WeeksAskedAgain`** (`PagesProofs`): `WeekStarts` and `WeekStartIs` say which day
`WeekStartFor` yields; `ISOWeekStands` that the number and the year of an ISO week lead back
to its Monday, also around the turn of a year. A week that starts on a Saturday,
Sunday or Monday contains the Monday of the ISO week of its third day.

**`GridsShowMonths`** (`PagesProofs`): the grid starts and ends less than a week from the month
(`GridSpans`), so that a month number modulo 12 decides whether a cell is of this month
(`NearMonth`). The tally of a cell counts the occurrences of its day among those of the whole
grid: `OccurrencesWithin` says that a range contains the occurrences of a shorter one, because
the completions and the periods of a range are all that matter for a day of it.

**`RanksCountBetter`** (`PagesProofs`): a stable sort by a score, from a list sorted by name, is a
strict order (`KeepingOrders`); in a list sorted by it, rows of one score stand together and the
better ones stand before them (`Ranked`, `Ties`), so that the rank which the loop hands down
to equal neighbours is the number of better rows and one (`RanksAre`).

**`StreaksFound`** (`PagesProofs`): one loop goes back from today and counts done days
(`StreakIs`), the other goes forward through the month and keeps the longest run
(`BestStreakIs`, with `Runs` for what is still to come). A day that is not wholly exempt
is done for the one just if it is perfect for the other (`DonePerfect`).

**`FragmentsReload`** (`PagesProofs`). What a toggle does to the page: the instance `Toggled` of
`Dashboard` reads other completions, and nothing else of it differs (`SameSchedule`, `SameOrder`,
`InnerToggled`). `Given` lists the occurrences of a range for any set of completions; a toggle
exchanges one of them for another of the same task and date (`DayExchanged`, `OtherDays`) whose
status is the opposite (`Flips`). So one row leaves a list and another enters the other list
of today, or one row changes in its missed group: one that was missed is completed late, and
the other way round, hence shown in both cases. What the script does: a list is the one
arrangement of its rows in their order (`PlacedOnce`); taking a row out leaves the arrangement
of the others (`WithoutRow`), putting it before the row that follows it in the new list gives
the new list, also if none follows (`RowInserted`), and a row that only changes its status stays
in its place (`RowReplaced`). `Ticked`, `Unticked` and `Restated` put both together.

**`PagesTellTheSame`** (`ReportsProofs`): the four pages list occurrences of the current week from
ranges of their own: a week up to today, a whole week, a month around it, the grid of a
month. `OccurrencesWithin` reduces them to the same set, and what each filters, to the same
filter; sums over days become the cardinality of the week by `SumByKey` (elements counted by
a key of theirs are as many as there are).

**`BarsSplitMonths`** (`ReportsProofs`): `WeekRangesAre` says what the loop of `reportWeekRanges`
yields, `WeeksSplit` that these weeks are disjoint and cover the month; `SumByKey`, with the week
as the key, adds up the bars.

**`ReportsSumUp`** (`ReportsProofs`): the bars of several users are rows of a table, one after the
other (`FlatIs` says where FlattenSeq puts each), and those of one week are every so-many-th
(`AllBarsAre`). Totals and bars are sums of parts named by numbers on one side and by users on
the other (`SumOfParts`, by a bijection); a cell counts the reports that show the status in
the same cell (`AllRowShows`), whose rows are the same tasks in the same order (`OwnRows`).

The strengthenings were model-checked on the instances of section 4 before they were
proved, and so were the properties of the pages.

Only model-checked: `RequestsAnswered` and `ClientsForgotten`, which are liveness under
fairness and out of the prover's reach. `OpenedWithCurrentPassword`, `ActiveAdminRemains`
and `OneRecordPerDay` are false (section 6); `LastAdminOnlyOvertaken` and `OverlapsOnlyRaced`, which
are proved, say when the last two may fail.

## 6. What the checks found

* **The last administrator can be removed by two concurrent requests**
  (`last_admin`). `Update` (user_admin.go:156-165) and `Delete` (246-255) read
  `CountActiveAdmins` in one statement and write in another. Two administrators
  who demote, deactivate or delete each other (or themselves, by demotion) at the
  same time both read 2. `ErrLastAdmin` is documented as returned "when an
  operation would leave the system with no admin user" (user_admin.go:19).
* **A login can survive a password change** (`stale_login`). `Login` compares the
  hash it read (auth.go:81-91) and inserts the session later (101); between them a
  password change may write its hash and delete the user's sessions. The session
  of the old password then remains, against "Force re-login on password change so
  any leaked session is revoked" (user_admin.go:193). The rotations have the same
  window.

* **Periods can overlap** (`overlap`). `validateAndCheckOverlap` lists the user's periods
  (menses_admin.go:119) and `Create` (64) or `Update` (79) writes in another statement;
  the table has no constraint that would stop it. A form submitted twice is
  recorded twice, although the check "rejects overlap with any other period
  belonging to the same user" (menses_admin.go:95).

Observations without a run, none of which contradicts what the code says of itself:

* Deleting a task removes its row and, through the foreign key, its completions
  (task_admin.go:149-157); a paragraph of the original plan (PLAN.md:181) speaks of a
  soft delete.
* An occurrence after today is not due, but counts as done when it is completed ahead
  (reports.go:644), so that a report's percentage may exceed 100. `PagesAgree` states the
  difference to the other pages.
* The dashboard's streak takes a day on which everything is exempt as complete, the
  leaderboard's as a day without tasks; `StreaksAgree` leaves these days out.
* Two toggles of one row, submitted at once, may both insert: the row is then toggled
  once and stamped twice (`Resubmit`).
* Two moves at once mix two orders and may leave ties; the next move numbers all tasks
  anew. The listing stays a list of all tasks, whatever the numbers are.
* A toggle that midnight overtakes writes by one date and is answered by the page of the
  next (dashboard.go:116 and `buildInner`): a row of the old day is taken out of today's
  list, and appears among the missed ones only on a reload. Likewise the answer to the
  toggle of a date before the history window, which no page offers, is a hidden row (175).
* `computeStats` goes on when a read of the week or of a day of the streak fails, and the page
  shows figures that are too small (dashboard.go:331-353).
* Sessions of a deactivated user whose DELETE failed stay, and live again when the user is
  activated again, unless somebody has presented them meanwhile (user_admin.go:174).
* An upload that fails between the removal of the old picture and its UPDATE
  leaves a row that names no file (profile.go:388); two uploads at once leave the files
  of the one whose UPDATE came first; the files of a deleted account stay.

What holds although it looks fragile: concurrent rotations of one cookie leave
several sessions but all of the same person; reset tokens are single-use under any
interleaving; sessions that outlive a failed revocation are gone with the next
completed one; periods of different users never mix, also when an account is deleted
while its requests run; a toggle whose task is deactivated, changed or deleted under it
never writes a date that was not offered; late refills and sweeping are invisible to
clients; no interleaving of uploads takes a picture away from a row.

## 7. Not modelled

* CSRF tokens (a keyed hash of the session id, compared in constant time: no state and
  nothing to interleave), bcrypt and the randomness of tokens and file names (no
  collisions, no guessing).
* The mailer's I/O, of which `PasswordReset` has the outcome; the PDF export, which lays out
  the numbers of `Reports` and `Leaderboard`; configuration, logging, security headers and
  server start, whose table of routes `Requests` reflects.
* Templates, but for the script of `layout.html` that applies fragments; the flash
  cookie and error pages; labels, wording, colours and layout of the pages. Of the heat map
  the classes are modelled.
* Seeding, but for the administrator it makes sure of.
* Listing and searching of users and periods, which change nothing; sessions'
  `DeleteExpiredSessions`, which no code path calls.
* Parsing and validation of forms, reduced to what they let through. Time zones: dates are
  those of the application's zone, and the zone does not change.
* Reads of the statistics that fail (`computeStats` swallows the error). The order of two tasks of
  equal number created in the same second, which SQL leaves open: the model lists the
  later id first. Weekly tasks more than 292 years after their start, where the
  difference of two times no longer fits a `time.Duration`.
* Rounding: tokens of the rate limiter are exact, and `percent` rounds halves up,
  which agrees with the floating-point code for the totals checked.
* Decoding, scaling and encoding of pictures, which happen before the first write; a
  write that fails may leave a torn file, to which no row ever points.

## 8. What is left

1. `SessionChains`: an abstract specification of a person's sessions (opened, handed
   over, ended) and the proof that `Accounts` implements it. `PrincipalKept` and
   `OldSessionsRevoked` state its main consequences.
2. A fix for each finding of section 6, modelled and checked: the count and the write of a removal
   in one statement; a version of the password in the session; a lock on the user's row
   around the overlap check.
