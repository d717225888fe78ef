---------------------------- MODULE TasksProofs ----------------------------
(***************************************************************************)
(* Tasks implements Tracker for every number of requests at once, and the  *)
(* keys of the tables hold in each of its states.                          *)
(*                                                                         *)
(* The strengthening says that a request is sound: what it has read still  *)
(* entitles it to what it is about to write.  The other requests change    *)
(* the tables meanwhile, but never the dates on which a task was due (the  *)
(* history `schedules' only grows), nor the day the request arrived.       *)
(*                                                                         *)
(* Of a request that is quiet, nothing disturbs, more is known: the tables *)
(* still hold what a toggle has read (Finds), and a move has given its     *)
(* number to every task it is done with (Orders).                          *)
(***************************************************************************)
EXTENDS Tasks, TrackerProofs

\* WasDue, of any value of schedules.
WasDueIn(scheds, i, due) == \E s \in scheds[i] : due \in occurrenceDates(s, due, due)

NamedOn(day) == day - Back .. day + Ahead

SoundToggle(r, scheds) ==
  /\ {"user", "task", "due", "partial", "first", "asOf", "sets", "from", "row", "done",
      "shown"} \subseteq DOMAIN r
  /\ r.user \in Users /\ r.task \in TaskIds /\ r.due \in NamedOn(r.day)
  /\ r.at # "list" => WasDueIn(scheds, r.task, r.due)

SoundMove(r) ==
  /\ {"task", "delta", "goal", "places"} \subseteq DOMAIN r
  /\ r.places \subseteq TaskIds

SoundReset(r, date, adopt) ==
  /\ {"user", "dates", "window"} \subseteq DOMAIN r
  /\ r.user \in Users /\ r.dates \subseteq NamedOn(r.day)
  /\ r.at # "settings" =>
       \E d \in {r.day, date} : \E s \in adopt : r.window = ResetWindow(d, s)
  /\ r.at = "write" => r.dates \subseteq r.window

Sound(r, date, scheds, adopt) ==
  /\ {"op", "at", "day"} \subseteq DOMAIN r
  /\ r.day \in Int /\ date \in {r.day, r.day + 1}
  /\ r.op = "toggle" => SoundToggle(r, scheds)
  /\ r.op \in {"create", "update"} => r.row \in Forms /\ "row" \in DOMAIN r
  /\ r.op \in {"update", "active", "delete"} => r.task \in TaskIds /\ "task" \in DOMAIN r
  /\ r.op = "active" => r.active \in BOOLEAN /\ "active" \in DOMAIN r
  /\ r.op = "move" => SoundMove(r)
  /\ r.op = "reset" => SoundReset(r, date, adopt)

Requests ==
  /\ req = [p \in Procs |-> req[p]]
  /\ \A p \in Procs : req[p] = NULL \/ Sound(req[p], today, schedules, adopted)

IndInv == TablesTypeOK /\ Requests

-----------------------------------------------------------------------------
(***************************************************************************)
(* Requests stay sound.                                                    *)
(***************************************************************************)

\* What others do to the tables takes nothing from a request.
LEMMA SoundLater ==
  ASSUME NEW r, NEW date, NEW scheds, NEW adopt, NEW scheds2, NEW adopt2,
         Sound(r, date, scheds, adopt), adopt \subseteq adopt2,
         \A i \in TaskIds : scheds[i] \subseteq scheds2[i]
  PROVE  Sound(r, date, scheds2, adopt2)
<1>1. r.op = "toggle" => SoundToggle(r, scheds2)
  BY DEF Sound, SoundToggle, WasDueIn
<1>2. r.op = "reset" => SoundReset(r, date, adopt2)
  BY DEF Sound, SoundReset
<1> QED
  BY <1>1, <1>2 DEF Sound

\* Nor does midnight, on the day the request arrived.
LEMMA SoundTomorrow ==
  ASSUME NEW r, NEW date, NEW scheds, NEW adopt, Sound(r, date, scheds, adopt), r.day = date
  PROVE  Sound(r, date + 1, scheds, adopt)
<1>1. r.op = "reset" => SoundReset(r, date + 1, adopt)
  BY DEF Sound, SoundReset
<1> QED
  BY <1>1 DEF Sound

\* A step of one request.
LEMMA OneRequest ==
  ASSUME Requests, Kept, today' = today, NEW p \in Procs, NEW r,
         req' = [req EXCEPT ![p] = r], r = NULL \/ Sound(r, today, schedules, adopted)
  PROVE  Requests'
<1>1. \A q \in Procs : req'[q] = IF q = p THEN r ELSE req[q]
  BY DEF Requests
<1>2. \A q \in Procs : req'[q] = NULL \/ Sound(req'[q], today, schedules, adopted)
  BY <1>1 DEF Requests
<1>3. \A q \in Procs : req'[q] = NULL \/ Sound(req'[q], today, schedules', adopted')
  BY <1>2, SoundLater DEF Kept
<1>4. req' = [q \in Procs |-> req'[q]]
  BY DEF Requests
<1> QED
  BY <1>3, <1>4 DEF Requests

LEMMA Replied ==
  ASSUME Requests, Kept, today' = today, NEW p \in Procs, Reply(p)
  PROVE  Requests'
BY OneRequest DEF Reply

\* A step that reads leaves the tables as they are.
LEMMA ReadsKeep ==
  ASSUME TablesTypeOK, Reads
  PROVE  Kept /\ today' = today
BY DEF Reads, tableVars, taskVars, settingVars, TablesTypeOK, Existing, KeyHolds, Kept

\* Moving on keeps the request, but for the statement it comes to.
LEMMA MovedOn ==
  ASSUME NEW r, NEW at, NEW date, NEW scheds, NEW adopt, Sound(r, date, scheds, adopt),
         r.op = "toggle" => r.at # "list",
         r.op # "reset"
  PROVE  Sound([r EXCEPT !.at = at], date, scheds, adopt)
<1> DEFINE t == [r EXCEPT !.at = at]
<1>1. /\ DOMAIN t = DOMAIN r
      /\ \A f \in DOMAIN r : f # "at" => t[f] = r[f]
  OBVIOUS
<1>2. t.op = r.op /\ t.day = r.day
  BY <1>1 DEF Sound
<1>3. r.op = "toggle" => SoundToggle(t, scheds)
  BY <1>1, <1>2 DEF Sound, SoundToggle
<1>4. r.op = "move" => SoundMove(t)
  BY <1>1, <1>2 DEF Sound, SoundMove
<1> HIDE DEF t
<1>5. /\ r.op \in {"create", "update"} => t.row \in Forms /\ "row" \in DOMAIN t
      /\ r.op \in {"update", "active", "delete"} => t.task \in TaskIds /\ "task" \in DOMAIN t
      /\ r.op = "active" => t.active \in BOOLEAN /\ "active" \in DOMAIN t
  BY <1>1 DEF Sound
<1>6. Sound(t, date, scheds, adopt)
  BY <1>1, <1>2, <1>3, <1>4, <1>5 DEF Sound
<1> QED
  BY <1>6 DEF t

\* The locals that a toggle fills in matter to nobody else.
LEMMA LocalsChange ==
  ASSUME NEW r, NEW t, NEW date, NEW scheds, NEW adopt, Sound(r, date, scheds, adopt),
         r.op = "toggle", r.at # "list", DOMAIN t = DOMAIN r,
         \A f \in {"op", "day", "user", "task", "due"} : t[f] = r[f]
  PROVE  Sound(t, date, scheds, adopt)
<1>1. t.op = "toggle" /\ t.day = r.day
  OBVIOUS
<1>2. SoundToggle(t, scheds)
  BY <1>1 DEF Sound, SoundToggle
<1> QED
  BY <1>1, <1>2 DEF Sound

LEMMA ServingSound ==
  ASSUME Requests, NEW p \in Procs, NEW op, NEW at, Serving(p, op, at)
  PROVE  Sound(req[p], today, schedules, adopted) /\ req[p].op = op /\ req[p].at = at
BY DEF Requests, Serving

LEMMA Gone ==
  ASSUME Requests, Kept, today' = today, NEW p \in Procs, NEW at, Goto(p, at),
         Sound([req[p] EXCEPT !.at = at], today, schedules, adopted)
  PROVE  Requests'
<1>1. req' = [req EXCEPT ![p] = [req[p] EXCEPT !.at = at]]
  BY DEF Goto
<1> QED
  BY <1>1, OneRequest

LEMMA Answered ==
  ASSUME Requests, Kept, today' = today, NEW p \in Procs, Answer(p),
         req[p].op = "toggle", req[p].at # "list", Sound(req[p], today, schedules, adopted)
  PROVE  Requests'
<1>1. CASE Reply(p)
  BY <1>1, Replied
<1>2. CASE Goto(p, "clock")
  <2>1. Sound([req[p] EXCEPT !.at = "clock"], today, schedules, adopted)
    BY MovedOn
  <2> QED
    BY <1>2, <2>1, Gone
<1> QED
  BY <1>1, <1>2 DEF Answer

-----------------------------------------------------------------------------
(***************************************************************************)
(* Every statement of a request is a step of Tracker, or changes no table. *)
(***************************************************************************)
Follows == [TrackerNext]_tableVars /\ Requests'

\* A statement that reads.
LEMMA ReadsFollow ==
  ASSUME IndInv, Reads
  PROVE  Kept /\ today' = today /\ [TrackerNext]_tableVars
BY ReadsKeep DEF IndInv, Reads

\* Dates named on the day a request arrived are lately asked for.
LEMMA NamedLately ==
  ASSUME IndInv, NEW r, Sound(r, today, schedules, adopted)
  PROVE  NamedOn(r.day) \subseteq AskedLately
<1>1. today \in Int /\ Back \in Nat /\ Ahead \in Nat
  BY TablesAssumption DEF IndInv, TablesTypeOK
<1> QED
  BY <1>1 DEF Sound, NamedOn, AskedLately

LEMMA ListForToggleFollows ==
  ASSUME IndInv, NEW p \in Procs, ListForToggle(p)
  PROVE  Follows
<1>1. Sound(req[p], today, schedules, adopted) /\ req[p].op = "toggle"
  BY ServingSound DEF ListForToggle, IndInv
<1>2. Kept /\ today' = today /\ [TrackerNext]_tableVars
  BY ReadsFollow DEF ListForToggle
<1>3. CASE Reply(p)
  BY <1>2, <1>3, Replied DEF IndInv, Follows
<1>4. CASE IsDue(req[p].task, req[p].due) /\ Goto(p, "lookup")
  <2> DEFINE i == req[p].task
             t == [req[p] EXCEPT !.at = "lookup"]
  <2>1. i \in TaskIds /\ tasks[i] # NULL /\ tasks[i].active
        /\ req[p].due \in occurrenceDates(tasks[i], req[p].due, req[p].due)
    BY <1>4 DEF IsDue, ListActiveTasks, Existing
  <2>2. ScheduleOf(tasks[i]) \in schedules[i]
    BY <2>1 DEF IndInv, TablesTypeOK, Existing, InForce
  <2>3. req[p].due \in occurrenceDates(ScheduleOf(tasks[i]), req[p].due, req[p].due)
    BY <2>1 DEF occurrenceDates, ScheduleOf
  <2>4. WasDueIn(schedules, i, req[p].due)
    BY <2>2, <2>3 DEF WasDueIn
  <2>5. DOMAIN t = DOMAIN req[p] /\ \A f \in DOMAIN req[p] : f # "at" => t[f] = req[p][f]
    OBVIOUS
  <2>6. Sound(t, today, schedules, adopted)
    <3> HIDE DEF t
    <3> QED
      BY <1>1, <2>4, <2>5 DEF Sound, SoundToggle
  <2> QED
    BY <1>2, <1>4, <2>6, Gone DEF IndInv, Follows
<1> QED
  BY <1>3, <1>4 DEF ListForToggle

\* What a toggle that builds its page fills in.
LEMMA FillsFollow ==
  ASSUME IndInv, NEW p \in Procs, NEW at, Serving(p, "toggle", at), at # "list",
         NEW t, Fills(p, t), DOMAIN t = DOMAIN req[p],
         \A f \in {"op", "day", "user", "task", "due"} : t[f] = req[p][f]
  PROVE  Follows
<1>1. Sound(req[p], today, schedules, adopted) /\ req[p].op = "toggle" /\ req[p].at # "list"
  BY ServingSound DEF IndInv
<1>2. Kept /\ today' = today /\ [TrackerNext]_tableVars
  BY ReadsFollow DEF Fills
<1>3. Sound(t, today, schedules, adopted)
  BY <1>1, LocalsChange
<1> QED
  BY <1>2, <1>3, OneRequest DEF Fills, IndInv, Follows

\* Each of these reads fills in locals, but not what the request asks.
LEMMA BuildFills ==
  ASSUME IndInv, NEW p \in Procs,
         ReadClock(p) \/ ReadAppSettings(p) \/ ReadHistory(p) \/ ReadTasks(p)
           \/ ReadCompletions(p) \/ ReadPeriods(p)
  PROVE  /\ \E at : Serving(p, "toggle", at) /\ at # "list"
         /\ \E t : /\ Fills(p, t) /\ DOMAIN t = DOMAIN req[p]
                   /\ \A f \in {"op", "day", "user", "task", "due", "partial", "first"} :
                        t[f] = req[p][f]
<1>1. \E at : Serving(p, "toggle", at) /\ at # "list"
  BY DEF ReadClock, ReadAppSettings, ReadHistory, ReadTasks, ReadCompletions, ReadPeriods
<1>2. Sound(req[p], today, schedules, adopted) /\ req[p].op = "toggle"
  BY <1>1, ServingSound DEF IndInv
<1>3. /\ {"op", "at", "day", "user", "task", "due", "partial", "first", "asOf", "sets", "from",
          "row", "done", "shown"} \subseteq DOMAIN req[p]
      /\ \A f \in {"op", "day", "user", "task", "due", "partial", "first"} :
           f \notin {"at", "asOf", "sets", "from", "row", "done", "shown"}
  BY <1>2 DEF Sound, SoundToggle
<1> DEFINE Locals  == {"at", "asOf", "sets", "from", "row", "done", "shown"}
           Same(t) == /\ DOMAIN t = DOMAIN req[p]
                      /\ \A f \in DOMAIN req[p] : f \notin Locals => t[f] = req[p][f]
<1>4. ASSUME NEW t, Fills(p, t), Same(t)
      PROVE  \E x : /\ Fills(p, x) /\ DOMAIN x = DOMAIN req[p]
                   /\ \A f \in {"op", "day", "user", "task", "due", "partial", "first"} :
                        x[f] = req[p][f]
  BY <1>3, <1>4
<1>5. CASE ReadClock(p)
  <2> DEFINE t == [req[p] EXCEPT !.at = "settings", !.asOf = today]
  <2>1. Fills(p, t)
    BY <1>5 DEF ReadClock
  <2>2. Same(t)
    OBVIOUS
  <2> HIDE DEF t, Same
  <2> QED  BY <1>1, <1>4, <2>1, <2>2
<1>6. CASE ReadAppSettings(p)
  <2> DEFINE t == [req[p] EXCEPT !.at   = IF req[p].due = req[p].day THEN "tasks" ELSE "history",
                            !.sets = AppSettings,
                            !.from = req[p].asOf]
  <2>1. Fills(p, t)
    BY <1>6 DEF ReadAppSettings
  <2>2. Same(t)
    OBVIOUS
  <2> HIDE DEF t, Same
  <2> QED  BY <1>1, <1>4, <2>1, <2>2
<1>7. CASE ReadHistory(p)
  <2> DEFINE t == [req[p] EXCEPT !.at = "answer"]
             u == [req[p] EXCEPT !.at = "tasks", !.from = MissedFrom(MissedDatesOf(req[p]))]
  <2>1. Fills(p, t) \/ Fills(p, u)
    BY <1>7 DEF ReadHistory
  <2>2. Same(t) /\ Same(u)
    OBVIOUS
  <2> HIDE DEF t, u, Same
  <2> QED  BY <1>1, <1>4, <2>1, <2>2
<1>8. CASE ReadTasks(p)
  <2> DEFINE x == IF req[p].task \in DOMAIN ListActiveTasks
                  THEN ListActiveTasks[req[p].task] ELSE NULL
             t == [req[p] EXCEPT !.at = "completions", !.row = x]
  <2>1. Fills(p, t)
    BY <1>8 DEF ReadTasks
  <2> HIDE DEF x
  <2>2. Same(t)
    OBVIOUS
  <2> HIDE DEF t, Same
  <2> QED  BY <1>1, <1>4, <2>1, <2>2
<1>9. CASE ReadCompletions(p)
  <2> DEFINE x == {c \in ListCompletionsForUserInRange(req[p].user, req[p].from, LastShown(req[p])) :
                    c.task = req[p].task /\ c.due = req[p].due}
             t == [req[p] EXCEPT !.at = "periods", !.done = x]
  <2>1. Fills(p, t)
    BY <1>9 DEF ReadCompletions
  <2> HIDE DEF x
  <2>2. Same(t)
    OBVIOUS
  <2> HIDE DEF t, Same
  <2> QED  BY <1>1, <1>4, <2>1, <2>2
<1>10. CASE ReadPeriods(p)
  <2> DEFINE x == StatusIn(InSection(req[p],
                    Occurs(req[p], ListMensesPeriodsForUserInRange(
                                     req[p].user, req[p].from, LastShown(req[p])))))
             t == [req[p] EXCEPT !.at = "answer", !.shown = x]
  <2>1. Fills(p, t)
    BY <1>10 DEF ReadPeriods
  <2> HIDE DEF x
  <2>2. Same(t)
    OBVIOUS
  <2> HIDE DEF t, Same
  <2> QED  BY <1>1, <1>4, <2>1, <2>2
<1> QED
  BY <1>1, <1>5, <1>6, <1>7, <1>8, <1>9, <1>10

\* A toggle that is past the list of tasks reads.
LEMMA ToggleReadsFollow ==
  ASSUME IndInv, NEW p \in Procs,
         GetCompletion(p) \/ MarkRefused(p) \/ Confirm(p) \/ SendPage(p)
  PROVE  Follows
<1>1. Sound(req[p], today, schedules, adopted) /\ req[p].op = "toggle" /\ req[p].at # "list"
  BY ServingSound DEF GetCompletion, MarkRefused, Confirm, SendPage, IndInv
<1>2. Kept /\ today' = today /\ [TrackerNext]_tableVars
  BY ReadsFollow DEF GetCompletion, MarkRefused, Confirm, SendPage
<1>3. ASSUME NEW at, Goto(p, at) PROVE Requests'
  BY <1>1, <1>2, <1>3, MovedOn, Gone DEF IndInv
<1>4. CASE Reply(p)
  BY <1>2, <1>4, Replied DEF IndInv, Follows
<1>5. CASE GetCompletion(p)
  BY <1>2, <1>3, <1>5 DEF GetCompletion, Follows
<1>6. CASE Confirm(p)
  BY <1>1, <1>2, <1>4, <1>6, Answered DEF Confirm, Follows, IndInv
<1> QED
  BY <1>4, <1>5, <1>6 DEF MarkRefused, SendPage

LEMMA BuildFollows ==
  ASSUME IndInv, NEW p \in Procs,
         ReadClock(p) \/ ReadAppSettings(p) \/ ReadHistory(p) \/ ReadTasks(p)
           \/ ReadCompletions(p) \/ ReadPeriods(p)
  PROVE  Follows
<1>1. PICK at : Serving(p, "toggle", at) /\ at # "list"
  BY BuildFills
<1>2. PICK t : /\ Fills(p, t) /\ DOMAIN t = DOMAIN req[p]
               /\ \A f \in {"op", "day", "user", "task", "due", "partial", "first"} :
                    t[f] = req[p][f]
  BY BuildFills
<1> QED
  BY <1>1, <1>2, FillsFollow

\* What a toggle writes, Tracker's Toggle or Resubmit writes.
LEMMA ToggleWrites ==
  ASSUME IndInv, NEW p \in Procs, Serving(p, "toggle", "unmark") \/ Serving(p, "toggle", "mark")
  PROVE  /\ Sound(req[p], today, schedules, adopted) /\ req[p].op = "toggle" /\ req[p].at # "list"
         /\ req[p].user \in Users /\ req[p].task \in TaskIds /\ req[p].due \in AskedLately
         /\ WasDue(req[p].task, req[p].due)
<1>1. Sound(req[p], today, schedules, adopted) /\ req[p].op = "toggle" /\ req[p].at # "list"
  BY ServingSound DEF IndInv
<1>2. req[p].due \in AskedLately
  BY <1>1, NamedLately DEF Sound, SoundToggle
<1> QED
  BY <1>1, <1>2 DEF Sound, SoundToggle, WasDue, WasDueIn

LEMMA UnmarkFollows ==
  ASSUME IndInv, NEW p \in Procs, Unmark(p)
  PROVE  Follows
<1> DEFINE u == req[p].user
           i == req[p].task
           due == req[p].due
<1>1. /\ Sound(req[p], today, schedules, adopted) /\ req[p].op = "toggle" /\ req[p].at # "list"
      /\ u \in Users /\ i \in TaskIds /\ due \in AskedLately /\ WasDue(i, due)
  BY ToggleWrites DEF Unmark
<1>2. ASSUME HasCompletion(u, i, due) PROVE [TrackerNext]_tableVars
  <2>1. u \in members /\ tasks[i] # NULL
    BY <1>2 DEF HasCompletion, CompletionsOf, IndInv, TablesTypeOK
  <2>2. Toggle(u, i, due)
    BY <1>1, <1>2, <2>1 DEF Unmark, Toggle
  <2> QED
    BY <1>1, <2>2 DEF TrackerNext, UserStep
<1>3. ASSUME ~HasCompletion(u, i, due) PROVE [TrackerNext]_tableVars
  <2>1. completions' = completions
    BY <1>3 DEF Unmark, MarkTaskIncomplete, Uncompleted, HasCompletion
  <2> QED
    BY <2>1 DEF Unmark, tableVars
<1>4. [TrackerNext]_tableVars
  BY <1>2, <1>3
<1>5. Kept /\ today' = today
  BY <1>4, TrackerStepTyped DEF Unmark, IndInv
<1>6. Requests'
  BY <1>1, <1>5, Answered DEF Unmark, IndInv
<1> QED
  BY <1>4, <1>6 DEF Follows

LEMMA MarkFollows ==
  ASSUME IndInv, NEW p \in Procs, Mark(p)
  PROVE  Follows
<1> DEFINE u == req[p].user
           i == req[p].task
           due == req[p].due
<1>1. /\ Sound(req[p], today, schedules, adopted) /\ req[p].op = "toggle" /\ req[p].at # "list"
      /\ u \in Users /\ i \in TaskIds /\ due \in AskedLately /\ WasDue(i, due)
  BY ToggleWrites DEF Mark
<1>2. u \in members /\ tasks[i] # NULL
  BY DEF Mark, CanMarkTaskComplete
<1>3. ASSUME HasCompletion(u, i, due) PROVE [TrackerNext]_tableVars
  <2>1. Resubmit(u, i, due)
    BY <1>3 DEF Mark, Resubmit
  <2> QED
    BY <1>1, <2>1 DEF TrackerNext, UserStep
<1>4. ASSUME ~HasCompletion(u, i, due) PROVE [TrackerNext]_tableVars
  <2>1. Toggle(u, i, due)
    BY <1>1, <1>2, <1>4 DEF Mark, Toggle
  <2> QED
    BY <1>1, <2>1 DEF TrackerNext, UserStep
<1>5. [TrackerNext]_tableVars
  BY <1>3, <1>4
<1>6. Kept /\ today' = today
  BY <1>5, TrackerStepTyped DEF Mark, IndInv
<1>7. Requests'
  BY <1>1, <1>6, MovedOn, Gone DEF Mark, IndInv
<1> QED
  BY <1>5, <1>7 DEF Follows

\* A statement of an administrator's request is a step of Tracker.
LEMMA AdminFollows ==
  ASSUME IndInv, NEW p \in Procs, Reply(p), today' = today, [TrackerNext]_tableVars
  PROVE  Follows
<1>1. Kept
  BY TrackerStepTyped DEF IndInv
<1> QED
  BY <1>1, Replied DEF Follows, IndInv

\* An UPDATE of a task that is gone changes nothing.
LEMMA OverwriteGone ==
  ASSUME TablesTypeOK, NEW i, i \notin TaskIds \/ tasks[i] = NULL, NEW row, Overwrite(i, row),
         UNCHANGED <<today, members, completions, periods, settingVars>>
  PROVE  UNCHANGED tableVars
<1>1. tasks' = tasks
  BY DEF Overwrite, TablesTypeOK
<1>2. schedules' = schedules
  BY DEF Overwrite, TablesTypeOK
<1> QED
  BY <1>1, <1>2 DEF Overwrite, tableVars, taskVars

LEMMA GetTaskFollows ==
  ASSUME IndInv, NEW p \in Procs, GetTask(p)
  PROVE  Follows
<1>1. PICK op \in {"update", "active", "delete"} : Serving(p, op, "get")
  BY DEF GetTask
<1>2. Sound(req[p], today, schedules, adopted) /\ req[p].op = op
  BY <1>1, ServingSound DEF IndInv
<1>3. Kept /\ today' = today /\ [TrackerNext]_tableVars
  BY ReadsFollow DEF GetTask
<1>4. CASE Reply(p)
  BY <1>3, <1>4, Replied DEF IndInv, Follows
<1>5. CASE Goto(p, "write")
  <2>1. Sound([req[p] EXCEPT !.at = "write"], today, schedules, adopted)
    BY <1>2, MovedOn
  <2> QED
    BY <1>3, <1>5, <2>1, Gone DEF IndInv, Follows
<1> QED
  BY <1>4, <1>5 DEF GetTask

LEMMA InsertTaskFollows ==
  ASSUME IndInv, NEW p \in Procs, InsertTask(p)
  PROVE  Follows
<1>1. req[p].row \in Forms
  BY ServingSound DEF InsertTask, IndInv, Sound
<1>2. ASSUME lastTask < MaxTasks PROVE [TrackerNext]_tableVars
  <2>1. Create(req[p].row)
    BY <1>2 DEF InsertTask, Create
  <2> QED
    BY <1>1, <2>1 DEF TrackerNext, AdminStep
<1>3. ASSUME ~(lastTask < MaxTasks) PROVE [TrackerNext]_tableVars
  BY <1>3 DEF InsertTask, tableVars
<1> QED
  BY <1>2, <1>3, AdminFollows DEF InsertTask

LEMMA WriteUpdateFollows ==
  ASSUME IndInv, NEW p \in Procs, WriteUpdate(p)
  PROVE  Follows
<1>1. req[p].row \in Forms /\ req[p].task \in TaskIds
  BY ServingSound DEF WriteUpdate, IndInv, Sound
<1>2. ASSUME tasks[req[p].task] # NULL PROVE [TrackerNext]_tableVars
  <2>1. Update(req[p].task, req[p].row)
    BY <1>2 DEF WriteUpdate, Update
  <2> QED
    BY <1>1, <2>1 DEF TrackerNext, AdminStep
<1>3. ASSUME tasks[req[p].task] = NULL PROVE [TrackerNext]_tableVars
  BY <1>3, OverwriteGone DEF WriteUpdate, UpdateTask, IndInv
<1> QED
  BY <1>2, <1>3, AdminFollows DEF WriteUpdate

LEMMA WriteActiveFollows ==
  ASSUME IndInv, NEW p \in Procs, WriteActive(p)
  PROVE  Follows
<1>1. req[p].active \in BOOLEAN /\ req[p].task \in TaskIds
  BY ServingSound DEF WriteActive, IndInv, Sound
<1>2. ASSUME tasks[req[p].task] # NULL PROVE [TrackerNext]_tableVars
  <2>1. SetActive(req[p].task, req[p].active)
    BY <1>2 DEF WriteActive, SetActive
  <2>2. AdminStep
    BY <1>1, <2>1 DEF AdminStep
  <2> QED
    BY <2>2 DEF TrackerNext
<1>3. ASSUME tasks[req[p].task] = NULL PROVE [TrackerNext]_tableVars
  BY <1>3, OverwriteGone DEF WriteActive, SetTaskActive, IndInv
<1> QED
  BY <1>2, <1>3, AdminFollows DEF WriteActive

LEMMA WriteDeleteFollows ==
  ASSUME IndInv, NEW p \in Procs, WriteDelete(p)
  PROVE  Follows
<1>1. req[p].task \in TaskIds
  BY ServingSound DEF WriteDelete, IndInv, Sound
<1>2. ASSUME tasks[req[p].task] # NULL PROVE [TrackerNext]_tableVars
  <2>1. Delete(req[p].task)
    BY <1>2 DEF WriteDelete, Delete
  <2> QED
    BY <1>1, <2>1 DEF TrackerNext, AdminStep
<1>3. ASSUME tasks[req[p].task] = NULL PROVE [TrackerNext]_tableVars
  <2>1. tasks' = tasks
    BY <1>3 DEF WriteDelete, DeleteTask, IndInv, TablesTypeOK
  <2>2. completions' = completions
    BY <1>3 DEF WriteDelete, DeleteTask, IndInv, TablesTypeOK
  <2> QED
    BY <2>1, <2>2 DEF WriteDelete, DeleteTask, tableVars, taskVars
<1> QED
  BY <1>2, <1>3, AdminFollows DEF WriteDelete

-----------------------------------------------------------------------------
(***************************************************************************)
(* Moves.                                                                  *)
(***************************************************************************)

\* The list has no more places than there are ids.
LEMMA ListFits ==
  ASSUME IndInv
  PROVE  Len(ListTasks) \in 0 .. MaxTasks /\ DOMAIN ListTasks = 1 .. Len(ListTasks)
<1>1. MaxTasks \in Nat /\ Existing \subseteq TaskIds
  BY TablesAssumption DEF Existing
<1>2. IsFiniteSet(TaskIds) /\ Cardinality(TaskIds) = MaxTasks
  BY <1>1, FS_Interval DEF TaskIds
<1>3. Cardinality(Existing) \in 0 .. MaxTasks
  BY <1>1, <1>2, FS_Subset, FS_CardinalityType
<1>4. ASSUME NEW n \in 0 .. MaxTasks, NEW F(_)
      PROVE  /\ Len(<< >> \o [k \in 1 .. n |-> F(k)]) = n
             /\ DOMAIN (<< >> \o [k \in 1 .. n |-> F(k)]) = 1 .. n
  OBVIOUS
<1> QED
  BY <1>3, <1>4 DEF ListTasks, InOrder, Listed

\* Exchanging two elements gives a list of the same length.
LEMMA ExchangedFits ==
  ASSUME NEW list, NEW m, NEW n, Len(list) \in Nat, DOMAIN list = 1 .. Len(list)
  PROVE  Len(Exchanged(list, m, n)) = Len(list)
<1> DEFINE goal == Exchanged(list, m, n)
<1>1. goal = [k \in 1 .. Len(list) |-> goal[k]]
  BY DEF Exchanged
<1> HIDE DEF goal
<1>2. Len(goal) = Len(list)
  BY <1>1
<1> QED
  BY <1>2 DEF goal

LEMMA ListForMoveFollows ==
  ASSUME IndInv, NEW p \in Procs, ListForMove(p)
  PROVE  Follows
<1>1. Sound(req[p], today, schedules, adopted) /\ req[p].op = "move"
  BY ServingSound DEF ListForMove, IndInv
<1>2. Kept /\ today' = today /\ [TrackerNext]_tableVars
  BY ReadsFollow DEF ListForMove
<1>3. CASE Reply(p)
  BY <1>2, <1>3, Replied DEF IndInv, Follows
<1>4. ASSUME NEW m, NEW n,
             req' = [req EXCEPT ![p] = [req[p] EXCEPT
                       !.at     = "write",
                       !.goal   = Exchanged(ListTasks, m, n),
                       !.places = PlacesToNumber(Exchanged(ListTasks, m, n), m, n)]]
      PROVE  Follows
  <2> DEFINE goal   == Exchanged(ListTasks, m, n)
             places == PlacesToNumber(goal, m, n)
             t == [req[p] EXCEPT !.at = "write", !.goal = goal, !.places = places]
  <2>1. places \subseteq TaskIds
    <3>1. Len(goal) \in 0 .. MaxTasks /\ MaxTasks \in Nat
      BY ListFits, ExchangedFits, TablesAssumption
    <3> HIDE DEF goal
    <3> QED
      BY <3>1 DEF PlacesToNumber, TaskIds
  <2> HIDE DEF goal, places
  <2>2. DOMAIN t = DOMAIN req[p]
    OBVIOUS
  <2>3. \A f \in {"op", "day", "task", "delta"} : t[f] = req[p][f]
    BY <1>1 DEF Sound, SoundMove
  <2>4. t.places = places
    BY <1>1 DEF Sound, SoundMove
  <2>5. Sound(t, today, schedules, adopted)
    <3> HIDE DEF t
    <3>1. t.op = "move" /\ t.day = req[p].day
      BY <1>1, <2>3
    <3>2. SoundMove(t)
      BY <1>1, <2>1, <2>2, <2>4 DEF Sound, SoundMove
    <3> QED
      BY <1>1, <2>2, <3>1, <3>2 DEF Sound
  <2>6. req' = [req EXCEPT ![p] = t]
    BY <1>4 DEF goal, places
  <2>7. Requests'
    <3> HIDE DEF t
    <3> QED
      BY <1>2, <2>5, <2>6, OneRequest DEF IndInv
  <2> QED
    BY <1>2, <2>7 DEF Follows
<1>5. CASE ~Reply(p)
  <2> DEFINE idx == {n \in 1 .. Len(ListTasks) : ListTasks[n] = req[p].task}
             m   == CHOOSE n \in idx : TRUE
             n   == m + req[p].delta
  <2>1. req' = [req EXCEPT ![p] = [req[p] EXCEPT
                  !.at     = "write",
                  !.goal   = Exchanged(ListTasks, m, n),
                  !.places = PlacesToNumber(Exchanged(ListTasks, m, n), m, n)]]
    BY <1>5 DEF ListForMove
  <2> HIDE DEF m, n
  <2> QED  BY <1>4, <2>1
<1> QED
  BY <1>3, <1>5

\* One UPDATE of a move: the task is numbered, or is gone.
LEMMA WriteSequenceFollows ==
  ASSUME IndInv, NEW p \in Procs, WriteSequence(p)
  PROVE  Follows
<1>1. Sound(req[p], today, schedules, adopted) /\ req[p].op = "move" /\ req[p].at = "write"
  BY ServingSound DEF WriteSequence, IndInv
<1>2. PICK k \in req[p].places : /\ SetTaskSequence(req[p].goal[k], 10 * k)
                                 /\ req' = [req EXCEPT ![p].places = @ \ {k}]
  BY DEF WriteSequence
<1> DEFINE i == req[p].goal[k]
<1>3. k \in TaskIds
  BY <1>1 DEF Sound, SoundMove
<1>4. ASSUME i \in TaskIds, tasks[i] # NULL PROVE [TrackerNext]_tableVars
  <2>1. Renumber(i, k)
    BY <1>2, <1>4 DEF WriteSequence, Renumber
  <2>2. AdminStep
    BY <1>3, <1>4, <2>1 DEF AdminStep
  <2> QED
    BY <2>2 DEF TrackerNext
<1>5. ASSUME i \notin TaskIds \/ tasks[i] = NULL PROVE [TrackerNext]_tableVars
  BY <1>2, <1>5, OverwriteGone DEF WriteSequence, SetTaskSequence, IndInv
<1>6. [TrackerNext]_tableVars
  BY <1>4, <1>5
<1>7. Kept /\ today' = today
  BY <1>6, TrackerStepTyped DEF WriteSequence, IndInv
<1> DEFINE t == [req[p] EXCEPT !.places = @ \ {k}]
<1>8. req' = [req EXCEPT ![p] = t]
  BY <1>2
<1>9. DOMAIN t = DOMAIN req[p] /\ \A f \in DOMAIN t : f # "places" => t[f] = req[p][f]
  OBVIOUS
<1>10. t.places = req[p].places \ {k}
  BY <1>1 DEF Sound, SoundMove
<1>11. Sound(t, today, schedules, adopted)
  <2> HIDE DEF t
  <2>1. t.op = "move" /\ t.day = req[p].day
    BY <1>1, <1>9 DEF Sound
  <2>2. SoundMove(t)
    BY <1>1, <1>9, <1>10 DEF Sound, SoundMove
  <2> QED
    BY <1>1, <1>9, <2>1, <2>2 DEF Sound
<1>12. Requests'
  <2> HIDE DEF t
  <2> QED
    BY <1>7, <1>8, <1>11, OneRequest DEF IndInv
<1> QED
  BY <1>6, <1>12 DEF Follows

\* A statement that only reads, and after which the request is answered.
LEMMA ReadAndReply ==
  ASSUME IndInv, NEW p \in Procs, Reads, Reply(p)
  PROVE  Follows
BY ReadsFollow, Replied DEF IndInv, Follows

-----------------------------------------------------------------------------
(***************************************************************************)
(* Resets.                                                                 *)
(***************************************************************************)
\* Settings that are stored are legal.
LEMMA SettingsInForce ==
  ASSUME TablesTypeOK
  PROVE  AppSettings = settings /\ settings \in Settings
<1>1. settings \in Settings /\ settings # NULL
  BY TablesAssumption DEF TablesTypeOK
<1>2. settings = [weekStart |-> settings.weekStart, weeks |-> settings.weeks]
  BY <1>1 DEF Settings
<1> QED
  BY <1>1, <1>2 DEF AppSettings, Settings

LEMMA ReadSettingsFollows ==
  ASSUME IndInv, NEW p \in Procs, ReadSettings(p)
  PROVE  Follows
<1>1. Sound(req[p], today, schedules, adopted) /\ req[p].op = "reset"
  BY ServingSound DEF ReadSettings, IndInv
<1>2. Kept /\ today' = today /\ [TrackerNext]_tableVars
  BY ReadsFollow DEF ReadSettings
<1> DEFINE window == ResetWindow(today, AppSettings)
           t == [req[p] EXCEPT !.at = "user", !.window = window]
<1>3. req' = [req EXCEPT ![p] = t]
  BY DEF ReadSettings, ResetWindow
<1>4. AppSettings \in adopted
  BY SettingsInForce DEF IndInv, TablesTypeOK
<1> HIDE DEF window
<1>5. /\ DOMAIN t = DOMAIN req[p]
      /\ \A f \in {"op", "day", "user", "dates"} : t[f] = req[p][f]
      /\ t.at = "user" /\ t.window = window
  BY <1>1 DEF Sound, SoundReset
<1>6. Sound(t, today, schedules, adopted)
  <2> HIDE DEF t
  <2>1. t.op = "reset" /\ t.day = req[p].day
    BY <1>1, <1>5
  <2>2. SoundReset(t, today, adopted)
    BY <1>1, <1>4, <1>5 DEF Sound, SoundReset, window
  <2> QED
    BY <1>1, <1>5, <2>1, <2>2 DEF Sound
<1>7. Requests'
  <2> HIDE DEF t
  <2> QED
    BY <1>2, <1>3, <1>6, OneRequest DEF IndInv
<1> QED
  BY <1>2, <1>7 DEF Follows

LEMMA GetUserFollows ==
  ASSUME IndInv, NEW p \in Procs, GetUser(p)
  PROVE  Follows
<1>1. Sound(req[p], today, schedules, adopted) /\ req[p].op = "reset" /\ req[p].at = "user"
  BY ServingSound DEF GetUser, IndInv
<1>2. Kept /\ today' = today /\ [TrackerNext]_tableVars
  BY ReadsFollow DEF GetUser
<1>3. CASE Reply(p)
  BY <1>3, ReadAndReply DEF GetUser
<1>4. CASE MayReset(p) /\ Goto(p, "write")
  <2> DEFINE t == [req[p] EXCEPT !.at = "write"]
  <2>1. DOMAIN t = DOMAIN req[p] /\ \A f \in DOMAIN t : f # "at" => t[f] = req[p][f]
    OBVIOUS
  <2>2. req[p].dates \subseteq req[p].window
    BY <1>4 DEF MayReset
  <2>3. Sound(t, today, schedules, adopted)
    <3> HIDE DEF t
    <3>1. t.op = "reset" /\ t.day = req[p].day
      BY <1>1, <2>1 DEF Sound
    <3>2. SoundReset(t, today, adopted)
      BY <1>1, <2>1, <2>2 DEF Sound, SoundReset
    <3> QED
      BY <1>1, <2>1, <3>1, <3>2 DEF Sound
  <2> QED
    BY <1>2, <1>4, <2>3, Gone DEF IndInv, Follows
<1> QED
  BY <1>3, <1>4 DEF GetUser

LEMMA WriteResetFollows ==
  ASSUME IndInv, NEW p \in Procs, WriteReset(p)
  PROVE  Follows
<1> DEFINE u == req[p].user
           dates == req[p].dates
<1>1. Sound(req[p], today, schedules, adopted) /\ req[p].op = "reset" /\ req[p].at = "write"
  BY ServingSound DEF WriteReset, IndInv
<1>2. /\ u \in Users /\ dates \subseteq NamedOn(req[p].day) /\ dates \subseteq req[p].window
      /\ req[p].day \in Int /\ today \in {req[p].day, req[p].day + 1}
  BY <1>1 DEF Sound, SoundReset
<1>3. dates \in SUBSET AskedLately
  BY <1>1, <1>2, NamedLately
<1>4. PICK d \in {req[p].day, today} : \E s \in adopted : req[p].window = ResetWindow(d, s)
  BY <1>1 DEF Sound, SoundReset
<1>5. PICK s \in adopted : req[p].window = ResetWindow(d, s)
  BY <1>4
<1>6. d \in {today - 1, today}
  BY <1>2, <1>4
<1>7. Reset(u, dates)
  <2>1. <<d, s>> \in {x \in {today - 1, today} \X adopted : dates \subseteq ResetWindow(x[1], x[2])}
    BY <1>2, <1>5, <1>6
  <2> QED
    BY <2>1 DEF Reset, WriteReset
<1>8. AdminStep
  BY <1>2, <1>3, <1>7 DEF AdminStep
<1>9. [TrackerNext]_tableVars
  BY <1>8 DEF TrackerNext
<1> QED
  BY <1>9, AdminFollows DEF WriteReset

-----------------------------------------------------------------------------
(***************************************************************************)
(* The steps of Next.                                                      *)
(***************************************************************************)
LEMMA ServeFollows ==
  ASSUME IndInv, NEW p \in Procs, Serve(p)
  PROVE  Follows
<1>1. CASE ServeToggle(p)
  BY <1>1, ListForToggleFollows, ToggleReadsFollow, BuildFollows, UnmarkFollows,
     MarkFollows
     DEF ServeToggle
<1>2. CASE Moved(p)
  BY <1>2, ReadAndReply DEF Moved
<1>3. CASE ServeAdmin(p) /\ ~Moved(p)
  BY <1>3, GetTaskFollows, InsertTaskFollows, WriteUpdateFollows, WriteActiveFollows,
     WriteDeleteFollows, ListForMoveFollows, WriteSequenceFollows, ReadSettingsFollows,
     GetUserFollows, WriteResetFollows DEF ServeAdmin
<1> QED
  BY <1>1, <1>2, <1>3 DEF Serve

\* A request is sound when it arrives: it has read nothing yet.
LEMMA ArriveFollows ==
  ASSUME IndInv, NEW p \in Procs, Arrive(p)
  PROVE  Follows
<1>1. ASSUME NEW r, Arrives(p, r), Sound(r, today, schedules, adopted)
      PROVE  Follows
  <2>1. Kept /\ today' = today /\ [TrackerNext]_tableVars
    BY <1>1, ReadsFollow DEF Arrives, Reads
  <2> QED
    BY <1>1, <2>1, OneRequest DEF Arrives, IndInv, Follows
<1>2. today \in Int /\ members \subseteq Users
  BY TablesAssumption DEF IndInv, TablesTypeOK
<1>3. ASSUME NEW u \in members, NEW i \in TaskIds, NEW due \in Asked, NEW partial \in BOOLEAN
      PROVE  Sound(ToggleRequest(u, i, due, partial), today, schedules, adopted)
  BY <1>2, <1>3 DEF Sound, SoundToggle, ToggleRequest, Asked, NamedOn
<1>4. ASSUME NEW row \in Forms
      PROVE  Sound(CreateRequest(row), today, schedules, adopted)
  BY <1>2, <1>4 DEF Sound, CreateRequest
<1>5. ASSUME NEW row \in Forms, NEW i \in TaskIds
      PROVE  Sound(UpdateRequest(i, row), today, schedules, adopted)
  BY <1>2, <1>5 DEF Sound, UpdateRequest
<1>6. ASSUME NEW i \in TaskIds, NEW act \in BOOLEAN
      PROVE  Sound(ActiveRequest(i, act), today, schedules, adopted)
  BY <1>2, <1>6 DEF Sound, ActiveRequest
<1>7. ASSUME NEW i \in TaskIds
      PROVE  Sound(DeleteRequest(i), today, schedules, adopted)
  BY <1>2, <1>7 DEF Sound, DeleteRequest
<1>8. ASSUME NEW i \in TaskIds, NEW delta \in {-1, 1}
      PROVE  Sound(MoveRequest(i, delta), today, schedules, adopted)
  BY <1>2, <1>8 DEF Sound, SoundMove, MoveRequest
<1>9. ASSUME NEW u \in Users, NEW dates \in SUBSET Asked
      PROVE  Sound(ResetRequest(u, dates), today, schedules, adopted)
  BY <1>2, <1>9 DEF Sound, SoundReset, ResetRequest, Asked, NamedOn
<1>10. CASE \E u \in members, i \in TaskIds, due \in Asked, partial \in BOOLEAN :
              Arrives(p, ToggleRequest(u, i, due, partial))
  BY <1>1, <1>3, <1>10
<1>11. CASE \E row \in Forms :
              Arrives(p, CreateRequest(row))
              \/ \E i \in TaskIds : Arrives(p, UpdateRequest(i, row))
  BY <1>1, <1>4, <1>5, <1>11
<1>12. CASE \E i \in TaskIds, act \in BOOLEAN : Arrives(p, ActiveRequest(i, act))
  BY <1>1, <1>6, <1>12
<1>13. CASE \E i \in TaskIds : Arrives(p, DeleteRequest(i))
  BY <1>1, <1>7, <1>13
<1>14. CASE \E i \in TaskIds, delta \in {-1, 1} : Arrives(p, MoveRequest(i, delta))
  BY <1>1, <1>8, <1>14
<1>15. CASE \E u \in Users, dates \in SUBSET Asked : Arrives(p, ResetRequest(u, dates))
  BY <1>1, <1>9, <1>15
<1> QED
  BY <1>10, <1>11, <1>12, <1>13, <1>14, <1>15 DEF Arrive

LEMMA OthersFollow ==
  ASSUME IndInv, Others
  PROVE  Follows
<1>1. TrackerNext
  BY DEF Others, TrackerNext, UserStep, AdminStep, IndInv, TablesTypeOK
<1>2. Kept /\ today' = today
  BY <1>1, TrackerStepTyped
     DEF Others, IndInv, RecordPeriod, ChangePeriod, DeletePeriod, RemoveUser, SaveSettings
<1>3. \A p \in Procs : req[p] = NULL \/ Sound(req[p], today, schedules', adopted')
  BY <1>2, SoundLater DEF IndInv, Requests, Kept
<1>4. Requests'
  BY <1>2, <1>3 DEF Others, IndInv, Requests
<1> QED
  BY <1>1, <1>4 DEF Follows

LEMMA MidnightFollows ==
  ASSUME IndInv, Midnight
  PROVE  Follows
<1>1. /\ TrackerNext /\ today' = today + 1
      /\ schedules' = schedules /\ adopted' = adopted
  BY DEF Midnight, TrackerNext, MidnightPasses, taskVars, settingVars
<1>2. \A p \in Procs : req[p] = NULL \/ Sound(req[p], today + 1, schedules, adopted)
  BY SoundTomorrow DEF Midnight, IndInv, Requests
<1>3. Requests'
  BY <1>1, <1>2 DEF Midnight, IndInv, Requests
<1> QED
  BY <1>1, <1>3 DEF Follows

LEMMA StepFollows ==
  ASSUME IndInv, [Next]_vars
  PROVE  Follows /\ IndInv'
<1>1. ASSUME NEW p \in Procs, Arrive(p) \/ Serve(p) \/ Fail(p)
      PROVE  Follows
  BY <1>1, ArriveFollows, ServeFollows, ReadAndReply DEF Fail
<1>2. ASSUME UNCHANGED vars PROVE Follows
  BY <1>2 DEF vars, tableVars, taskVars, settingVars, IndInv, Requests, Follows
<1>3. Follows
  BY <1>1, <1>2, OthersFollow, MidnightFollows DEF Next
<1>4. TablesTypeOK'
  BY <1>3, TrackerStepTyped DEF Follows, IndInv, Kept
<1> QED
  BY <1>3, <1>4 DEF Follows, IndInv

LEMMA InitIndInv ==
  ASSUME Init
  PROVE  IndInv
<1>1. TablesTypeOK
  BY InitTyped DEF Init
<1> QED
  BY <1>1 DEF Init, IndInv, Requests

\* However the statements of requests interleave, and wherever they fail, rows
\* have their types, completions belong to a user and a task that exist, and
\* there is one for each task, user and date (services/tasks.go, ToggleAsOf;
\* task_admin.go, Delete; the keys of migration 000004).
THEOREM TasksTablesCorrect == Spec => []TablesTypeOK
<1>1. Init => IndInv
  BY InitIndInv
<1>2. IndInv /\ [Next]_vars => IndInv'
  BY StepFollows
<1>3. IndInv => TablesTypeOK
  BY DEF IndInv
<1> QED
  BY <1>1, <1>2, <1>3, PTL DEF Spec

\* The requests implement Tracker, whose operations take one step each: what a
\* toggle writes was due, what a reset erases was in the window of the history,
\* and a move numbers tasks that exist (services/tasks.go, task_admin.go).
THEOREM TasksImplementTracker == Spec => ImplementsTracker
<1>1. Init => IndInv /\ TrackerInit
  BY InitIndInv DEF Init, TrackerInit
<1>2. IndInv /\ [Next]_vars => IndInv' /\ [TrackerNext]_tableVars
  BY StepFollows DEF Follows
<1> QED
  BY <1>1, <1>2, PTL DEF Spec, ImplementsTracker, TrackerSpec

-----------------------------------------------------------------------------
(***************************************************************************)
(* What a toggle that nothing disturbs finds.                              *)
(***************************************************************************)
Has(r) == HasCompletion(r.user, r.task, r.due)

\* A row that is there once the toggle has written is its own.
Fresh(r) == \A c \in CompletionsOf(r.user, r.task, r.due) : c.at >= r.day

\* The section starts today, or with the history of a day since asOf.
Ranged(r) ==
  IF r.due = r.day THEN r.from = r.asOf
  ELSE \E day \in r.asOf .. today :
         HistoryOn(day) # {} /\ r.from = MissedFrom(HistoryOn(day))

ReadRow(r) == r.row # NULL /\ Timetable(r.row) = Timetable(tasks[r.task])

Shows(r) ==
  \/ r.shown = NULL /\ MayHide(r)
  \/ r.shown = "exempt" /\ ExemptNow(r)
  \/ r.shown = "completed" /\ ~ExemptNow(r) /\ ~r.first
  \/ r.shown \in {"pending", "missed"} /\ ~ExemptNow(r) /\ r.first

Building == {"settings", "history", "tasks", "completions", "periods", "answer"}

\* What the toggle has read, the tables still hold.
Finds(r) ==
  /\ r.at \in {"list", "lookup"} => r.first = Has(r)
  /\ r.at # "list" => IsDue(r.task, r.due)
  /\ r.at = "unmark" => r.first = TRUE /\ Has(r)
  /\ r.at = "mark" => r.first = FALSE /\ ~Has(r)
  /\ r.at = "confirm" => r.first = FALSE /\ Has(r) /\ Fresh(r)
  /\ r.at \in {"clock"} \cup Building => r.first = ~Has(r) /\ Fresh(r)
  /\ r.at \in Building => r.asOf \in r.day .. today
  /\ r.at = "history" => r.due # r.day /\ r.sets = AppSettings
  /\ r.at \in {"tasks", "completions", "periods"} => Ranged(r)
  /\ r.at \in {"completions", "periods"} => ReadRow(r)
  /\ r.at = "periods" => r.done = {c \in CompletionsOf(r.user, r.task, r.due) :
                                     c.due \in r.from .. LastShown(r)}
  /\ r.at # "answer" => r.shown = NULL
  /\ r.at = "answer" => Shows(r)

Toggling(p) == req[p] # NULL /\ req[p].op = "toggle"

Undisturbed == \A p \in Procs : quiet[p] /\ Toggling(p) => Finds(req[p])

\* Rows with the same timetable are due on the same dates.
LEMMA SameDates ==
  ASSUME NEW s, NEW t, Timetable(s) = Timetable(t), NEW from, NEW to
  PROVE  /\ occurrenceDates(s, from, to) = occurrenceDates(t, from, to)
         /\ s.active = t.active /\ s.exempt = t.exempt
<1>1. s.freq = t.freq /\ s.start = t.start /\ s.end = t.end
      /\ s.active = t.active /\ s.exempt = t.exempt
  BY DEF Timetable
<1> QED
  BY <1>1 DEF occurrenceDates

\* The dates of a window are consecutive, and the first is the least.
LEMMA HistoryStarts ==
  ASSUME NEW dates, NEW a \in Int, NEW b \in Int, dates = a .. b, dates # {}
  PROVE  MissedFrom(dates) \in Int /\ \A d \in dates : MissedFrom(dates) <= d
<1>1. a \in dates /\ \A d \in dates : a <= d
  OBVIOUS
<1>2. \E d \in dates : \A e \in dates : d <= e
  BY <1>1
<1>3. MissedFrom(dates) \in dates /\ \A e \in dates : MissedFrom(dates) <= e
  BY <1>2 DEF MissedFrom
<1> QED
  BY <1>3

LEMMA HistoryOnStarts ==
  ASSUME TablesTypeOK, NEW day \in Int, HistoryOn(day) # {}
  PROVE  /\ MissedFrom(HistoryOn(day)) \in Int
         /\ \A d \in HistoryOn(day) : MissedFrom(HistoryOn(day)) <= d
<1>1. AppSettings.weekStart \in Int /\ AppSettings.weeks \in Int
  BY SettingsInForce DEF Settings, Weekdays
<1> DEFINE start == WeekStartFor(day, AppSettings.weekStart)
                      - 7 * (Later(AppSettings.weeks, 1) - 1)
<1>2. start \in Int
  BY <1>1 DEF WeekStartFor, Weekday, Later
<1>3. HistoryOn(day) = start .. day - 1
  BY DEF HistoryOn, WeekDatesForHistory
<1> HIDE DEF start
<1> QED
  BY <1>2, <1>3, HistoryStarts

\* Time passes.
LEMMA TodayGrows ==
  ASSUME IndInv, [TrackerNext]_tableVars
  PROVE  today' \in {today, today + 1}
<1>1. CASE AdminStep
  BY <1>1 DEF AdminStep, Create, Update, SetActive, Delete, Renumber, Reset, SaveSettings,
     RemoveUser
<1>2. ASSUME NEW u \in Users, UserStep(u) PROVE today' = today
  BY <1>2 DEF UserStep, Toggle, Resubmit, RecordPeriod, ChangePeriod, DeletePeriod
<1>3. CASE MidnightPasses
  BY <1>3 DEF MidnightPasses
<1>4. CASE UNCHANGED tableVars
  BY <1>4 DEF tableVars
<1> QED
  BY <1>1, <1>2, <1>3, <1>4 DEF TrackerNext

\* What a toggle that is not disturbed has as its concern.
LEMMA ConcernKept ==
  ASSUME NEW p \in Procs, Toggling(p), req'[p] = req[p],
         Concern(req[p])' = Concern(req[p])
  PROVE  /\ settings' = settings
         /\ req[p].task \in Existing' <=> req[p].task \in Existing
         /\ req[p].task \in Existing =>
              Timetable(tasks'[req[p].task]) = Timetable(tasks[req[p].task])
         /\ {q \in periods' : q.user = req[p].user} = {q \in periods : q.user = req[p].user}
         /\ CompletionsOf(req[p].user, req[p].task, req[p].due)'
              = CompletionsOf(req[p].user, req[p].task, req[p].due)
<1> DEFINE r == req[p]
           now  == [i \in {r.task} \cap Existing |-> Timetable(tasks[i])]
           then == [i \in {r.task} \cap Existing' |-> Timetable(tasks'[i])]
           mine == {q \in periods : q.user = r.user}
           ours == {q \in periods' : q.user = r.user}
           rows == {c \in completions : c.user = r.user /\ c.task = r.task /\ c.due = r.due}
           left == {c \in completions' : c.user = r.user /\ c.task = r.task /\ c.due = r.due}
<1>1. Concern(req[p]) = <<settings, now, mine, rows>>
  BY DEF Concern, Toggling, CompletionsOf
<1>2. Concern(req[p])' = <<settings', then, ours, left>>
  BY DEF Concern, Toggling, CompletionsOf
<1>3. settings' = settings /\ then = now /\ ours = mine /\ left = rows
  <2> HIDE DEF now, then, mine, ours, rows, left
  <2> QED  BY <1>1, <1>2
<1>4. DOMAIN then = DOMAIN now
  BY <1>3
<1>5. r.task \in Existing' <=> r.task \in Existing
  BY <1>4
<1>6. ASSUME r.task \in Existing PROVE Timetable(tasks'[r.task]) = Timetable(tasks[r.task])
  <2>1. then[r.task] = Timetable(tasks'[r.task]) /\ now[r.task] = Timetable(tasks[r.task])
    BY <1>5, <1>6
  <2> HIDE DEF then, now
  <2> QED  BY <1>3, <2>1
<1> QED
  BY <1>3, <1>5, <1>6 DEF CompletionsOf

\* While its concern stays, so does what the toggle found, though time passes.
LEMMA StillFinds ==
  ASSUME IndInv, TablesTypeOK', [TrackerNext]_tableVars, NEW p \in Procs, Toggling(p),
         Finds(req[p]),
         req'[p] = req[p], Concern(req[p])' = Concern(req[p])
  PROVE  Finds(req[p])'
<1> DEFINE r == req[p]
<1>1. /\ settings' = settings
      /\ r.task \in Existing' <=> r.task \in Existing
      /\ r.task \in Existing => Timetable(tasks'[r.task]) = Timetable(tasks[r.task])
      /\ {q \in periods' : q.user = r.user} = {q \in periods : q.user = r.user}
      /\ CompletionsOf(r.user, r.task, r.due)' = CompletionsOf(r.user, r.task, r.due)
  BY ConcernKept
<1>2. /\ (Has(r) <=> Has(r)') /\ (Fresh(r) <=> Fresh(r)')
  BY <1>1 DEF Has, HasCompletion, Fresh
<1>3. IsDue(r.task, r.due) => /\ IsDue(r.task, r.due)' /\ r.task \in Existing
                              /\ tasks'[r.task].exempt = tasks[r.task].exempt
  BY <1>1, SameDates DEF IsDue, ListActiveTasks, Existing
<1>4. AppSettings' = AppSettings /\ \A day : HistoryOn(day)' = HistoryOn(day)
  BY <1>1 DEF AppSettings, HistoryOn
<1>5. today \in Int /\ today' \in Int /\ today <= today' /\ r.day \in Int
  BY TodayGrows, TablesAssumption DEF IndInv, TablesTypeOK, Requests, Sound, Toggling
<1>6. r.at \in Building => r.asOf \in r.day .. today' /\ r.asOf .. today \subseteq r.asOf .. today'
  BY <1>5 DEF Finds
<1>7. ASSUME IsDue(r.task, r.due) PROVE ExemptNow(r)' <=> ExemptNow(r)
  BY <1>1, <1>3, <1>7 DEF ExemptNow
<1>8. ASSUME r.at \in Building, Ranged(r) PROVE Ranged(r)'
  BY <1>4, <1>6, <1>8 DEF Ranged
<1>9. ASSUME r.at = "answer", Shows(r), IsDue(r.task, r.due) PROVE Shows(r)'
  <2>1. MayHide(r) => MayHide(r)'
    BY <1>4, <1>6, <1>7, <1>9 DEF MayHide, Building
  <2> QED
    BY <1>7, <1>9, <2>1 DEF Shows
<1>10. ASSUME IsDue(r.task, r.due), ReadRow(r) PROVE ReadRow(r)'
  BY <1>1, <1>3, <1>10 DEF ReadRow
<1>11. /\ r.at \in {"list", "lookup"} => r.first = Has(r)'
       /\ r.at # "list" => IsDue(r.task, r.due)'
       /\ r.at = "unmark" => r.first = TRUE /\ Has(r)'
       /\ r.at = "mark" => r.first = FALSE /\ ~Has(r)'
       /\ r.at = "confirm" => r.first = FALSE /\ Has(r)' /\ Fresh(r)'
       /\ r.at \in {"clock"} \cup Building => r.first = ~Has(r)' /\ Fresh(r)'
  BY <1>2, <1>3, Zenon DEF Finds, Has, HasCompletion
<1>12. /\ r.at \in Building => r.asOf \in r.day .. today'
       /\ r.at = "history" => r.due # r.day /\ r.sets = AppSettings'
       /\ r.at \in {"tasks", "completions", "periods"} => Ranged(r)'
       /\ r.at \in {"completions", "periods"} => ReadRow(r)'
  BY <1>4, <1>6, <1>8, <1>10 DEF Finds, Building
<1>13. /\ r.at = "periods" => r.done = {c \in CompletionsOf(r.user, r.task, r.due)' :
                                          c.due \in r.from .. LastShown(r)}
       /\ r.at # "answer" => r.shown = NULL
       /\ r.at = "answer" => Shows(r)'
  BY <1>1, <1>9 DEF Finds
<1> QED
  BY <1>11, <1>12, <1>13 DEF Finds

\* Statements that read leave the tables, and so what was found in them.
LEMMA ReadsLeave ==
  ASSUME Reads, NEW p \in Procs, NEW t, req'[p] = t, Finds(t)
  PROVE  Finds(req[p])'
<1>1. UNCHANGED <<today, tasks, completions, settings, periods>>
  BY DEF Reads, tableVars, taskVars, settingVars
<1>2. CompletionsOf(req[p].user, req[p].task, req[p].due)' = CompletionsOf(t.user, t.task, t.due)
  BY <1>1 DEF CompletionsOf
<1>3. IsDue(req[p].task, req[p].due)' <=> IsDue(t.task, t.due)
  BY <1>1 DEF IsDue, ListActiveTasks, Existing
<1>4. Has(req[p])' = Has(t) /\ (Fresh(req[p])' <=> Fresh(t))
  BY <1>2 DEF Has, HasCompletion, Fresh
<1>5. AppSettings' = AppSettings /\ \A day : HistoryOn(day)' = HistoryOn(day)
  BY <1>1 DEF AppSettings, HistoryOn
<1>6. ExemptNow(req[p])' <=> ExemptNow(t)
  BY <1>1 DEF ExemptNow
<1>7. (MayHide(req[p])' <=> MayHide(t)) /\ (Ranged(req[p])' <=> Ranged(t))
  BY <1>1, <1>5, <1>6 DEF MayHide, Ranged
<1>8. (Shows(req[p])' <=> Shows(t)) /\ (ReadRow(req[p])' <=> ReadRow(t))
  BY <1>1, <1>6, <1>7 DEF Shows, ReadRow
<1> QED
  BY <1>1, <1>2, <1>3, <1>4, <1>5, <1>7, <1>8 DEF Finds

\* The fields of a toggle.
LEMMA ToggleFields ==
  ASSUME IndInv, NEW p \in Procs, Toggling(p)
  PROVE  /\ {"op", "at", "day", "user", "task", "due", "partial", "first", "asOf", "sets",
             "from", "row", "done", "shown"} \subseteq DOMAIN req[p]
         /\ req[p].day \in Int /\ today \in {req[p].day, req[p].day + 1}
         /\ req[p].due \in Int /\ req[p].task \in TaskIds
<1>1. Sound(req[p], today, schedules, adopted) /\ Back \in Nat /\ Ahead \in Nat
  BY TablesAssumption DEF Toggling, IndInv, Requests
<1> QED
  BY <1>1 DEF Sound, SoundToggle, Toggling, NamedOn

LEMMA Filled ==
  ASSUME IndInv, NEW p \in Procs, NEW t, Fills(p, t), Finds(t)
  PROVE  Finds(req[p])'
<1>1. req'[p] = t /\ Reads
  BY DEF Fills, IndInv, Requests
<1> QED
  BY <1>1, ReadsLeave

\* What has been found depends on these fields only.
LEMMA SameFound ==
  ASSUME NEW r, NEW t, \A f \in {"day", "user", "task", "due", "first"} : t[f] = r[f]
  PROVE  /\ IsDue(t.task, t.due) <=> IsDue(r.task, r.due)
         /\ Has(t) = Has(r) /\ (Fresh(t) <=> Fresh(r)) /\ t.first = r.first
         /\ t.day = r.day /\ t.due = r.due /\ t.task = r.task /\ t.user = r.user
         /\ ExemptNow(t) <=> ExemptNow(r)
<1>1. t.day = r.day /\ t.user = r.user /\ t.task = r.task /\ t.due = r.due /\ t.first = r.first
  OBVIOUS
<1> QED
  BY <1>1 DEF Has, Fresh, ExemptNow

\* The clock: the page is as of today.
LEMMA ClockFinds ==
  ASSUME IndInv, NEW p \in Procs, ReadClock(p), Finds(req[p])
  PROVE  Finds(req[p])'
<1> DEFINE r == req[p]
           t == [r EXCEPT !.at = "settings", !.asOf = today]
<1>1. Toggling(p) /\ r.at = "clock" /\ Fills(p, t)
  BY DEF ReadClock, Serving, Toggling
<1>2. /\ t.at = "settings" /\ t.asOf = today /\ t.shown = r.shown
      /\ \A f \in {"day", "user", "task", "due", "first"} : t[f] = r[f]
  BY <1>1, ToggleFields
<1>3. today \in r.day .. today
  BY <1>1, ToggleFields
<1> HIDE DEF t
<1>4. /\ IsDue(t.task, t.due) <=> IsDue(r.task, r.due)
      /\ Has(t) = Has(r) /\ (Fresh(t) <=> Fresh(r)) /\ t.first = r.first /\ t.day = r.day
  BY <1>2, SameFound
<1>5. Finds(t)
  BY <1>1, <1>2, <1>3, <1>4 DEF Finds, Building
<1> QED
  BY <1>1, <1>5, Filled

\* The settings: today's section starts with asOf.
LEMMA SettingsFind ==
  ASSUME IndInv, NEW p \in Procs, ReadAppSettings(p), Finds(req[p])
  PROVE  Finds(req[p])'
<1> DEFINE r == req[p]
           t == [r EXCEPT !.at   = IF r.due = r.day THEN "tasks" ELSE "history",
                          !.sets = AppSettings, !.from = r.asOf]
<1>1. Toggling(p) /\ r.at = "settings" /\ Fills(p, t)
  BY DEF ReadAppSettings, Serving, Toggling
<1>2. /\ t.at = IF r.due = r.day THEN "tasks" ELSE "history"
      /\ t.asOf = r.asOf /\ t.from = r.asOf /\ t.sets = AppSettings /\ t.shown = r.shown
      /\ \A f \in {"day", "user", "task", "due", "first"} : t[f] = r[f]
  BY <1>1, ToggleFields
<1> HIDE DEF t
<1>3. /\ IsDue(t.task, t.due) <=> IsDue(r.task, r.due)
      /\ Has(t) = Has(r) /\ (Fresh(t) <=> Fresh(r)) /\ t.first = r.first
      /\ t.day = r.day /\ t.due = r.due
  BY <1>2, SameFound
<1>4. r.due = r.day => Ranged(t)
  BY <1>2, <1>3 DEF Ranged
<1>5. Finds(t)
  BY <1>1, <1>2, <1>3, <1>4 DEF Finds, Building
<1> QED
  BY <1>1, <1>5, Filled

\* The history of today: the section starts with it, or has not got the row.
LEMMA HistoryFinds ==
  ASSUME IndInv, NEW p \in Procs, ReadHistory(p), Finds(req[p])
  PROVE  Finds(req[p])'
<1> DEFINE r == req[p]
           dates == HistoryOn(today)
           t == [r EXCEPT !.at = "answer"]
           u == [r EXCEPT !.at = "tasks", !.from = MissedFrom(dates)]
<1>1. Toggling(p) /\ r.at = "history" /\ r.due # r.day /\ r.sets = AppSettings
      /\ r.asOf \in r.day .. today /\ r.shown = NULL
  BY DEF ReadHistory, Serving, Toggling, Finds, Building
<1>2. MissedDatesOf(r) = dates
  BY <1>1 DEF MissedDatesOf, HistoryOn
<1>3. /\ today \in Int /\ r.due \in Int /\ r.asOf \in Int /\ today \in r.asOf .. today
      /\ LastShown(r) = r.asOf - 1
  BY <1>1, ToggleFields DEF LastShown
<1>4. CASE Fills(p, t) /\ (dates = {} \/ MissedFrom(dates) > LastShown(r))
  <2>1. /\ t.at = "answer" /\ t.asOf = r.asOf /\ t.shown = NULL
        /\ \A f \in {"day", "user", "task", "due", "first"} : t[f] = r[f]
    BY <1>1, ToggleFields
  <2> HIDE DEF t
  <2>2. /\ IsDue(t.task, t.due) <=> IsDue(r.task, r.due)
        /\ Has(t) = Has(r) /\ (Fresh(t) <=> Fresh(r)) /\ t.first = r.first
        /\ t.day = r.day /\ t.due = r.due
    BY <2>1, SameFound
  <2>3. r.due >= r.asOf \/ r.due \notin HistoryOn(today)
    <3>1. CASE dates = {}
      BY <3>1
    <3>2. CASE dates # {} /\ r.due < r.asOf
      <4>1. MissedFrom(dates) \in Int /\ \A d \in dates : MissedFrom(dates) <= d
        BY <1>3, <3>2, HistoryOnStarts DEF IndInv
      <4>2. r.due < MissedFrom(dates)
        BY <1>3, <1>4, <3>2, <4>1
      <4> HIDE DEF dates
      <4>3. r.due \notin dates
        BY <1>3, <4>1, <4>2
      <4> QED  BY <4>3 DEF dates
    <3> QED  BY <1>3, <3>1, <3>2
  <2>4. MayHide(t)
    BY <1>1, <1>3, <2>1, <2>2, <2>3 DEF MayHide
  <2>5. Finds(t)
    BY <1>1, <2>1, <2>2, <2>4 DEF Finds, Building, Shows
  <2> QED
    BY <1>4, <2>5, Filled
<1>5. CASE Fills(p, u) /\ dates # {}
  <2>1. /\ u.at = "tasks" /\ u.asOf = r.asOf /\ u.shown = NULL /\ u.from = MissedFrom(dates)
        /\ \A f \in {"day", "user", "task", "due", "first"} : u[f] = r[f]
    BY <1>1, ToggleFields
  <2> HIDE DEF u
  <2>2. /\ IsDue(u.task, u.due) <=> IsDue(r.task, r.due)
        /\ Has(u) = Has(r) /\ (Fresh(u) <=> Fresh(r)) /\ u.first = r.first
        /\ u.day = r.day /\ u.due = r.due
    BY <2>1, SameFound
  <2>3. Ranged(u)
    BY <1>1, <1>3, <1>5, <2>1, <2>2 DEF Ranged
  <2>4. Finds(u)
    BY <1>1, <2>1, <2>2, <2>3 DEF Finds, Building
  <2> QED
    BY <1>5, <2>4, Filled
<1>6. \/ Fills(p, t) /\ (dates = {} \/ MissedFrom(dates) > LastShown(r))
      \/ Fills(p, u) /\ dates # {}
  <2> HIDE DEF dates
  <2> QED  BY <1>2 DEF ReadHistory
<1> QED
  BY <1>4, <1>5, <1>6

\* The row of the task, which is due and so active.
LEMMA TasksFind ==
  ASSUME IndInv, NEW p \in Procs, ReadTasks(p), Finds(req[p])
  PROVE  Finds(req[p])'
<1> DEFINE r == req[p]
           t == [r EXCEPT !.at = "completions", !.row = tasks[r.task]]
<1>1. /\ Toggling(p) /\ r.at = "tasks" /\ IsDue(r.task, r.due) /\ Ranged(r) /\ r.shown = NULL
      /\ r.asOf \in r.day .. today /\ r.first = ~Has(r) /\ Fresh(r)
  BY DEF ReadTasks, Serving, Toggling, Finds, Building
<1>2. r.task \in DOMAIN ListActiveTasks /\ ListActiveTasks[r.task] = tasks[r.task]
      /\ tasks[r.task] # NULL
  BY <1>1 DEF IsDue, ListActiveTasks, Existing
<1>3. Fills(p, t)
  BY <1>2 DEF ReadTasks
<1>4. /\ t.at = "completions" /\ t.row = tasks[r.task]
      /\ \A f \in {"day", "user", "task", "due", "first", "asOf", "from", "shown"} : t[f] = r[f]
  BY <1>1, ToggleFields
<1> HIDE DEF t
<1>5. /\ IsDue(t.task, t.due) <=> IsDue(r.task, r.due)
      /\ Has(t) = Has(r) /\ (Fresh(t) <=> Fresh(r)) /\ t.first = r.first
      /\ t.day = r.day /\ t.due = r.due /\ t.task = r.task
  BY <1>4, SameFound
<1>6. Ranged(t) /\ ReadRow(t)
  BY <1>1, <1>2, <1>4, <1>5 DEF Ranged, ReadRow
<1>7. Finds(t)
  BY <1>1, <1>4, <1>5, <1>6 DEF Finds, Building
<1> QED
  BY <1>3, <1>7, Filled

LEMMA CompletionsFind ==
  ASSUME IndInv, NEW p \in Procs, ReadCompletions(p), Finds(req[p])
  PROVE  Finds(req[p])'
<1> DEFINE r == req[p]
           done == {c \in ListCompletionsForUserInRange(r.user, r.from, LastShown(r)) :
                      c.task = r.task /\ c.due = r.due}
           t == [r EXCEPT !.at = "periods", !.done = done]
<1>1. /\ Toggling(p) /\ r.at = "completions" /\ IsDue(r.task, r.due) /\ Ranged(r)
      /\ ReadRow(r) /\ r.shown = NULL /\ r.asOf \in r.day .. today
      /\ r.first = ~Has(r) /\ Fresh(r) /\ Fills(p, t)
  BY DEF ReadCompletions, Serving, Toggling, Finds, Building
<1>2. done = {c \in CompletionsOf(r.user, r.task, r.due) : c.due \in r.from .. LastShown(r)}
  BY DEF ListCompletionsForUserInRange, CompletionsOf
<1> HIDE DEF done
<1>3. /\ t.at = "periods" /\ t.done = done
      /\ \A f \in {"day", "user", "task", "due", "first", "asOf", "from", "row", "shown"} :
           t[f] = r[f]
  BY <1>1, ToggleFields
<1> HIDE DEF t
<1>4. /\ IsDue(t.task, t.due) <=> IsDue(r.task, r.due)
      /\ Has(t) = Has(r) /\ (Fresh(t) <=> Fresh(r)) /\ t.first = r.first
      /\ t.day = r.day /\ t.due = r.due /\ t.task = r.task /\ t.user = r.user
  BY <1>3, SameFound
<1>5. Ranged(t) /\ ReadRow(t) /\ LastShown(t) = LastShown(r)
  BY <1>1, <1>3, <1>4 DEF Ranged, ReadRow, LastShown
<1>6. Finds(t)
  BY <1>1, <1>2, <1>3, <1>4, <1>5 DEF Finds, Building
<1> QED
  BY <1>1, <1>6, Filled

\* Of the toggled task, at most the toggled date is looked at.
LEMMA OneOccurrence ==
  ASSUME IndInv, NEW p \in Procs, Toggling(p), Finds(req[p]), req[p].at = "periods",
         NEW inPeriods, req[p].due \in req[p].from .. LastShown(req[p])
  PROVE  Occurs(req[p], inPeriods) = {Occurrence(req[p].row, req[p].task, req[p].due,
                                                 req[p].done, inPeriods, req[p].asOf)}
<1> DEFINE r == req[p]
           one == [i \in {r.task} |-> r.row]
           O(d) == Occurrence(r.row, r.task, d, r.done, inPeriods, r.asOf)
<1>1. IsDue(r.task, r.due) /\ ReadRow(r) /\ r.due \in Int
  BY ToggleFields DEF Finds
<1>2. /\ r.task \in Existing /\ r.due \in occurrenceDates(tasks[r.task], r.due, r.due)
      /\ tasks[r.task] \in Task
  BY <1>1 DEF IsDue, ListActiveTasks, Existing, IndInv, TablesTypeOK
<1>3. occurrenceDates(tasks[r.task], r.due, r.due) = {r.due}
  <2>1. occurrenceDates(tasks[r.task], r.due, r.due) \subseteq r.due .. r.due
    BY <1>1, <1>2, OccurrencesAreDue
  <2> QED  BY <1>1, <1>2, <2>1
<1>4. occurrenceDates(r.row, r.due, r.due) = {r.due} /\ r.row # NULL
  BY <1>1, <1>3, SameDates DEF ReadRow
<1>5. buildOccurrences(one, r.done, inPeriods, r.asOf, r.due, r.due) = {O(r.due)}
  <2>1. DOMAIN one = {r.task} /\ one[r.task] = r.row
    OBVIOUS
  <2> HIDE DEF one
  <2>2. \A id \in DOMAIN one : {Occurrence(one[id], id, d, r.done, inPeriods, r.asOf) :
                                d \in occurrenceDates(one[id], r.due, r.due)} = {O(r.due)}
    BY <1>4, <2>1
  <2> HIDE DEF O
  <2>3. {{Occurrence(one[id], id, d, r.done, inPeriods, r.asOf) :
            d \in occurrenceDates(one[id], r.due, r.due)} : id \in DOMAIN one} = {{O(r.due)}}
    BY <2>1, <2>2
  <2> QED  BY <2>3 DEF buildOccurrences
<1> QED
  BY <1>4, <1>5 DEF Occurs

\* A row is left out of the page only where it has no place.
LEMMA RowLeftOut ==
  ASSUME IndInv, NEW p \in Procs, Toggling(p), Finds(req[p]), req[p].at = "periods",
         req[p].due \notin req[p].from .. LastShown(req[p])
  PROVE  MayHide(req[p])
<1> DEFINE r == req[p]
<1>1. Ranged(r) /\ r.asOf \in r.day .. today /\ r.due \in Int /\ r.day \in Int
      /\ today \in Int
  BY ToggleFields DEF Finds, Building
<1>2. CASE r.due = r.day
  BY <1>1, <1>2 DEF Ranged, LastShown, MayHide
<1>3. CASE r.due # r.day
  <2>1. PICK day \in r.asOf .. today :
          HistoryOn(day) # {} /\ r.from = MissedFrom(HistoryOn(day))
    BY <1>1, <1>3 DEF Ranged
  <2>2. r.from \in Int /\ \A d \in HistoryOn(day) : r.from <= d
    BY <1>1, <2>1, HistoryOnStarts DEF IndInv
  <2>3. LastShown(r) = r.asOf - 1
    BY <1>3 DEF LastShown
  <2>4. r.due >= r.asOf \/ r.due < r.from
    BY <1>1, <2>2, <2>3
  <2>5. r.due >= r.asOf \/ r.due \notin HistoryOn(day)
    BY <1>1, <2>2, <2>4
  <2> QED
    BY <1>1, <1>3, <2>5 DEF MayHide
<1> QED
  BY <1>2, <1>3

\* The occurrence, on dates that the section has, and whether it is shown.
LEMMA RowShown ==
  ASSUME IndInv, NEW p \in Procs, Toggling(p), Finds(req[p]), req[p].at = "periods",
         req[p].due \in req[p].from .. LastShown(req[p])
  PROVE  Shows([req[p] EXCEPT
                  !.at    = "answer",
                  !.shown = StatusIn(InSection(req[p],
                              Occurs(req[p], ListMensesPeriodsForUserInRange(
                                               req[p].user, req[p].from, LastShown(req[p])))))])
<1> DEFINE r == req[p]
           inPeriods == ListMensesPeriodsForUserInRange(r.user, r.from, LastShown(r))
           o == Occurrence(r.row, r.task, r.due, r.done, inPeriods, r.asOf)
           rows == {c \in r.done : c.task = r.task /\ c.due = r.due}
           shown == StatusIn(InSection(r, Occurs(r, inPeriods)))
           t == [r EXCEPT !.at = "answer", !.shown = shown]
<1> SUFFICES Shows(t)
  OBVIOUS
<1>1. /\ IsDue(r.task, r.due) /\ ReadRow(r) /\ Ranged(r) /\ r.asOf \in r.day .. today
      /\ r.first = ~Has(r) /\ Fresh(r)
      /\ r.done = {c \in CompletionsOf(r.user, r.task, r.due) : c.due \in r.from .. LastShown(r)}
  BY DEF Finds, Building
<1>2. /\ r.due \in Int /\ r.day \in Int /\ today \in Int /\ today \in {r.day, r.day + 1}
  BY ToggleFields
<1>3. Occurs(r, inPeriods) = {o}
  BY OneOccurrence
<1>4. rows = CompletionsOf(r.user, r.task, r.due)
  BY <1>1 DEF CompletionsOf
<1>5. dateInAnyPeriod(r.due, inPeriods) <=>
        dateInAnyPeriod(r.due, {q \in periods : q.user = r.user})
  <2>1. r.from \in Int /\ LastShown(r) \in Int
    <3>1. r.due # r.day => \E day \in r.asOf .. today :
                             HistoryOn(day) # {} /\ r.from = MissedFrom(HistoryOn(day))
      BY <1>1 DEF Ranged
    <3>2. r.due # r.day => r.from \in Int
      BY <1>1, <1>2, <3>1, HistoryOnStarts DEF IndInv
    <3>3. r.due = r.day => r.from = r.asOf
      BY <1>1 DEF Ranged
    <3> QED  BY <1>1, <1>2, <3>2, <3>3 DEF LastShown
  <2>2. \A q \in periods : q.start \in Int /\ (q.end = NULL \/ q.end \in Int)
    BY DEF IndInv, TablesTypeOK, Period
  <2>3. \A q \in periods : q.start <= r.due /\ (q.end = NULL \/ r.due <= q.end) =>
          q.start <= LastShown(r) /\ (q.end = NULL \/ q.end >= r.from)
    BY <1>2, <2>1, <2>2
  <2> QED
    BY <2>3 DEF dateInAnyPeriod, ListMensesPeriodsForUserInRange
<1>6. r.row.exempt = tasks[r.task].exempt
  BY <1>1, SameDates DEF ReadRow
<1>7. o.status = IF ExemptNow(r) THEN "exempt"
                 ELSE IF Has(r) THEN "completed"
                 ELSE IF r.due < r.asOf THEN "missed" ELSE "pending"
  BY <1>4, <1>5, <1>6 DEF Occurrence, ExemptNow, Has, HasCompletion
<1>8. o.status = "completed" => o.at \in Int /\ o.at >= r.day
  <2>1. o.status = "completed" => rows # {} /\ o.at = (CHOOSE c \in rows : TRUE).at
    BY <1>4, <1>5, <1>6 DEF Occurrence
  <2>2. rows # {} => (CHOOSE c \in rows : TRUE) \in CompletionsOf(r.user, r.task, r.due)
    BY <1>4
  <2>3. \A c \in CompletionsOf(r.user, r.task, r.due) : c.at \in Int /\ c.at >= r.day
    BY <1>1 DEF Fresh, CompletionsOf, IndInv, TablesTypeOK, Completion
  <2> HIDE DEF rows, o
  <2> QED  BY <2>1, <2>2, <2>3
<1>9. o.due = r.due
  BY DEF Occurrence
<1> HIDE DEF o
<1>10. StatusIn({o}) = o.status /\ StatusIn({}) = NULL
  BY DEF StatusIn
<1>11. shown = StatusIn({x \in {o} : r.due = r.day \/ showInMissedSection(x)})
  BY <1>3 DEF InSection
<1>12. /\ t.shown = shown
       /\ \A f \in {"day", "user", "task", "due", "first", "asOf"} : t[f] = r[f]
  <2> HIDE DEF shown
  <2> QED  BY ToggleFields
<1> HIDE DEF t, shown, inPeriods
<1>13. (ExemptNow(t) <=> ExemptNow(r)) /\ t.first = r.first /\ t.day = r.day /\ t.due = r.due
  BY <1>12, SameFound
<1>14. CASE r.due = r.day \/ showInMissedSection(o)
  <2>1. shown = o.status
    <3>1. {x \in {o} : r.due = r.day \/ showInMissedSection(x)} = {o}
      BY <1>14
    <3> QED  BY <1>10, <1>11, <3>1
  <2>2. (Has(r) => r.first = FALSE) /\ (~Has(r) => r.first = TRUE)
    BY <1>1 DEF Has, HasCompletion
  <2> QED
    BY <1>7, <1>12, <1>13, <2>1, <2>2 DEF Shows
<1>15. CASE r.due # r.day /\ ~showInMissedSection(o)
  <2>1. shown = NULL
    <3>1. {x \in {o} : r.due = r.day \/ showInMissedSection(x)} = {}
      BY <1>15
    <3> QED  BY <1>10, <1>11, <3>1
  <2>2. r.due < r.asOf /\ r.due < r.day
    BY <1>1, <1>2, <1>15 DEF LastShown
  <2>3. o.status # "missed" /\ ~(o.status = "completed" /\ o.at > o.due)
    BY <1>15 DEF showInMissedSection, Complete
  <2>4. ExemptNow(r)
    BY <1>2, <1>7, <1>8, <1>9, <2>2, <2>3
  <2>5. MayHide(t)
    BY <1>13, <1>15, <2>4 DEF MayHide
  <2> QED
    BY <1>12, <2>1, <2>5 DEF Shows
<1> QED
  BY <1>14, <1>15

\* A toggle whose page is built has read the row, the completions and the
\* periods as they still are.
LEMMA PeriodsFind ==
  ASSUME IndInv, NEW p \in Procs, ReadPeriods(p), Finds(req[p])
  PROVE  Finds(req[p])'
<1> DEFINE r == req[p]
           inPeriods == ListMensesPeriodsForUserInRange(r.user, r.from, LastShown(r))
           shown == StatusIn(InSection(r, Occurs(r, inPeriods)))
           t == [r EXCEPT !.at = "answer", !.shown = shown]
<1>1. /\ Toggling(p) /\ r.at = "periods" /\ IsDue(r.task, r.due) /\ r.first = ~Has(r)
      /\ Fresh(r) /\ r.asOf \in r.day .. today /\ Fills(p, t)
  BY DEF ReadPeriods, Serving, Toggling, Finds, Building
<1>2. r.due \in r.from .. LastShown(r) => Shows(t)
  BY <1>1, RowShown
<1>3. r.due \notin r.from .. LastShown(r) => shown = NULL /\ MayHide(r)
  BY <1>1, RowLeftOut DEF Occurs, InSection, StatusIn
<1> HIDE DEF shown
<1>4. /\ t.at = "answer" /\ t.shown = shown
      /\ \A f \in {"day", "user", "task", "due", "first", "asOf"} : t[f] = r[f]
  BY <1>1, ToggleFields
<1> HIDE DEF t
<1>5. /\ IsDue(t.task, t.due) <=> IsDue(r.task, r.due)
      /\ Has(t) = Has(r) /\ (Fresh(t) <=> Fresh(r)) /\ t.first = r.first
      /\ t.day = r.day /\ t.due = r.due /\ (ExemptNow(t) <=> ExemptNow(r))
  BY <1>4, SameFound
<1>6. MayHide(r) => MayHide(t)
  BY <1>4, <1>5 DEF MayHide
<1>7. Shows(t)
  BY <1>2, <1>3, <1>4, <1>6 DEF Shows
<1>8. Finds(t)
  BY <1>1, <1>4, <1>5, <1>7 DEF Finds, Building
<1> QED
  BY <1>1, <1>8, Filled

LEMMA ServesToggle ==
  ASSUME NEW p \in Procs, ServeToggle(p)
  PROVE  Toggling(p)
BY DEF ServeToggle, ListForToggle, GetCompletion, Unmark, Mark, MarkRefused, Confirm, ReadClock,
   ReadAppSettings, ReadHistory, ReadTasks, ReadCompletions, ReadPeriods, SendPage, Serving,
   Toggling

\* A toggle that only moves on.
LEMMA MovesOn ==
  ASSUME IndInv, NEW p \in Procs, Toggling(p), NEW at, Goto(p, at)
  PROVE  /\ req'[p].at = at
         /\ \A f \in {"op", "day", "user", "task", "due", "first", "asOf", "sets", "from", "row",
                     "done", "shown"} : req'[p][f] = req[p][f]
<1>1. req'[p] = [req[p] EXCEPT !.at = at]
  BY DEF Goto, IndInv, Requests
<1> QED
  BY <1>1, ToggleFields

\* It does so after a statement that reads: what it found is found again.
LEMMA MovesAndFinds ==
  ASSUME IndInv, NEW p \in Procs, Toggling(p), NEW at, Goto(p, at), Reads,
         at \in {"lookup", "unmark", "mark", "clock"},
         IsDue(req[p].task, req[p].due), req[p].shown = NULL,
         at = "lookup" => req[p].first = Has(req[p]),
         at = "unmark" => req[p].first = TRUE /\ Has(req[p]),
         at = "mark" => req[p].first = FALSE /\ ~Has(req[p]),
         at = "clock" => req[p].first = ~Has(req[p]) /\ Fresh(req[p])
  PROVE  Finds(req[p])'
<1> DEFINE r == req[p]
           t == [r EXCEPT !.at = at]
<1>1. req'[p] = t
  BY DEF Goto, IndInv, Requests
<1>2. /\ t.at = at /\ t.shown = r.shown
      /\ \A f \in {"day", "user", "task", "due", "first"} : t[f] = r[f]
  BY ToggleFields
<1> HIDE DEF t
<1>3. /\ IsDue(t.task, t.due) <=> IsDue(r.task, r.due)
      /\ Has(t) = Has(r) /\ (Fresh(t) <=> Fresh(r)) /\ t.first = r.first
  BY <1>2, SameFound
<1>4. Finds(t)
  BY <1>2, <1>3 DEF Finds, Building
<1> QED
  BY <1>1, <1>4, ReadsLeave

LEMMA UnmarkFinds ==
  ASSUME IndInv, NEW p \in Procs, Unmark(p), Finds(req[p]), req'[p] # NULL
  PROVE  Finds(req[p])'
<1>1. /\ Toggling(p) /\ req[p].at = "unmark" /\ tasks' = tasks
      /\ completions' = Uncompleted(req[p].user, req[p].task, req[p].due)
      /\ req[p].first = TRUE /\ req[p].shown = NULL /\ IsDue(req[p].task, req[p].due)
  BY DEF Unmark, Serving, Toggling, MarkTaskIncomplete, taskVars, Finds
<1>2. Goto(p, "clock")
  BY DEF Unmark, Answer, Reply, IndInv, Requests
<1>3. /\ req'[p].at = "clock"
      /\ \A f \in {"user", "task", "due", "first", "shown"} : req'[p][f] = req[p][f]
  BY <1>1, <1>2, MovesOn
<1>4. CompletionsOf(req[p].user, req[p].task, req[p].due)' = {}
  BY <1>1, <1>3 DEF CompletionsOf, Uncompleted
<1>5. ~Has(req[p])' /\ Fresh(req[p])'
  BY <1>4 DEF Has, HasCompletion, Fresh
<1>6. IsDue(req[p].task, req[p].due)'
  BY <1>1, <1>3 DEF IsDue, ListActiveTasks, Existing
<1> QED
  BY <1>1, <1>3, <1>5, <1>6 DEF Finds, Building

LEMMA MarkFinds ==
  ASSUME IndInv, NEW p \in Procs, Mark(p), Finds(req[p])
  PROVE  Finds(req[p])'
<1>1. /\ Toggling(p) /\ req[p].at = "mark" /\ tasks' = tasks /\ Goto(p, "confirm")
      /\ completions' = Completed(req[p].user, req[p].task, req[p].due)
      /\ req[p].first = FALSE /\ req[p].shown = NULL /\ IsDue(req[p].task, req[p].due)
  BY DEF Mark, Serving, Toggling, MarkTaskComplete, taskVars, Finds
<1>2. /\ req'[p].at = "confirm"
      /\ \A f \in {"day", "user", "task", "due", "first", "shown"} : req'[p][f] = req[p][f]
  BY <1>1, MovesOn
<1> DEFINE row == [user |-> req[p].user, task |-> req[p].task, due |-> req[p].due, at |-> today]
<1>3. CompletionsOf(req[p].user, req[p].task, req[p].due)' = {row}
  <2>1. row \in completions' /\ \A c \in completions' :
          c = row \/ c \notin CompletionsOf(req[p].user, req[p].task, req[p].due)
    BY <1>1 DEF Completed
  <2>2. \A c \in completions' : c = row \/ c \in completions
    BY <1>1 DEF Completed
  <2>3. row.user = req[p].user /\ row.task = req[p].task /\ row.due = req[p].due
    OBVIOUS
  <2> HIDE DEF row
  <2> QED  BY <1>2, <2>1, <2>2, <2>3 DEF CompletionsOf
<1>4. row.at >= req[p].day
  BY <1>1, ToggleFields
<1> HIDE DEF row
<1>5. Has(req[p])' /\ Fresh(req[p])'
  BY <1>2, <1>3, <1>4 DEF Has, HasCompletion, Fresh
<1>6. IsDue(req[p].task, req[p].due)'
  BY <1>1, <1>2 DEF IsDue, ListActiveTasks, Existing
<1> QED
  BY <1>1, <1>2, <1>5, <1>6 DEF Finds, Building

LEMMA ToggleFinds ==
  ASSUME IndInv, NEW p \in Procs, ServeToggle(p), Finds(req[p]), req'[p] # NULL
  PROVE  Finds(req[p])'
<1>1. ~Reply(p)
  BY DEF Reply, IndInv, Requests
<1>2. CASE ListForToggle(p)
  BY <1>1, <1>2, MovesAndFinds DEF ListForToggle, Serving, Toggling, Finds
<1>3. CASE GetCompletion(p)
  <2>1. /\ Toggling(p) /\ req[p].first = Has(req[p]) /\ IsDue(req[p].task, req[p].due)
        /\ req[p].shown = NULL /\ Reads
    BY <1>3 DEF GetCompletion, Serving, Toggling, Finds
  <2>2. CASE Has(req[p])
    <3>1. Goto(p, "unmark") /\ req[p].first = TRUE
      BY <1>3, <2>1, <2>2 DEF GetCompletion, Has, HasCompletion
    <3> QED  BY <2>1, <2>2, <3>1, MovesAndFinds
  <2>3. CASE ~Has(req[p])
    <3>1. Goto(p, "mark") /\ req[p].first = FALSE
      BY <1>3, <2>1, <2>3 DEF GetCompletion, Has, HasCompletion
    <3> QED  BY <2>1, <2>3, <3>1, MovesAndFinds
  <2> QED  BY <2>2, <2>3
<1>4. CASE Confirm(p)
  <2>1. /\ Toggling(p) /\ req[p].first = FALSE /\ Has(req[p]) /\ Fresh(req[p])
        /\ IsDue(req[p].task, req[p].due) /\ req[p].shown = NULL /\ Reads
    BY <1>4 DEF Confirm, Serving, Toggling, Finds
  <2>2. Goto(p, "clock")
    BY <1>1, <1>4 DEF Confirm, Answer
  <2> QED  BY <2>1, <2>2, MovesAndFinds
<1> QED
  BY <1>1, <1>2, <1>3, <1>4, UnmarkFinds, MarkFinds, ClockFinds, SettingsFind, HistoryFinds,
     TasksFind, CompletionsFind, PeriodsFind
     DEF ServeToggle, MarkRefused, SendPage

\* An administrator's request does not become a toggle.
LEMMA NoToggle ==
  ASSUME IndInv, NEW p \in Procs, ServeAdmin(p)
  PROVE  ~Toggling(p)'
<1>1. req[p] # NULL /\ req[p].op # "toggle" /\ Sound(req[p], today, schedules, adopted)
  BY DEF ServeAdmin, GetTask, InsertTask, WriteUpdate, WriteActive, WriteDelete, ListForMove,
     WriteSequence, Moved, ReadSettings, GetUser, WriteReset, Serving, IndInv, Requests
<1>2. "op" \in DOMAIN req[p]
  BY <1>1 DEF Sound
<1>3. req'[p] = NULL \/ req'[p].op = req[p].op
  <2>1. Reply(p) => req'[p] = NULL
    BY DEF Reply, IndInv, Requests
  <2>2. \A at : Goto(p, at) => req'[p].op = req[p].op
    BY <1>2 DEF Goto, IndInv, Requests
  <2>3. ListForMove(p) => req'[p] = NULL \/ req'[p].op = req[p].op
    BY <1>2, <2>1, ZenonT(30) DEF ListForMove, IndInv, Requests
  <2>4. WriteSequence(p) \/ ReadSettings(p) => req'[p].op = req[p].op
    BY <1>2 DEF WriteSequence, ReadSettings, IndInv, Requests
  <2> QED
    BY <2>1, <2>2, <2>3, <2>4
    DEF ServeAdmin, GetTask, InsertTask, WriteUpdate, WriteActive, WriteDelete, Moved,
        GetUser, WriteReset
<1> QED
  BY <1>1, <1>3 DEF Toggling

\* The other requests wait where they are.
LEMMA OthersWait ==
  ASSUME IndInv, NEW p \in Procs, NEW q \in Procs, q # p, Serve(q) \/ Fail(q)
  PROVE  req'[p] = req[p]
<1>1. ASSUME Goto(q, "clock") \/ Reply(q) PROVE req'[p] = req[p]
  BY <1>1 DEF Goto, Reply, IndInv, Requests
<1>2. CASE ServeAdmin(q)
  BY <1>2 DEF ServeAdmin, Reply, Goto, IndInv, Requests, GetTask, InsertTask, WriteUpdate,
     WriteActive, WriteDelete, ListForMove, WriteSequence, Moved, ReadSettings, GetUser, WriteReset
<1>3. CASE ListForToggle(q) \/ GetCompletion(q) \/ Unmark(q) \/ Mark(q) \/ MarkRefused(q)
             \/ Confirm(q) \/ SendPage(q)
  BY <1>3 DEF ListForToggle, GetCompletion, Unmark, Mark, MarkRefused, Confirm, SendPage, Answer,
     Reply, Goto, IndInv, Requests
<1>4. CASE ReadClock(q) \/ ReadAppSettings(q) \/ ReadHistory(q) \/ ReadTasks(q)
             \/ ReadCompletions(q) \/ ReadPeriods(q)
  <2>1. PICK t : Fills(q, t)
    BY <1>4, BuildFills
  <2> QED  BY <2>1 DEF Fills, IndInv, Requests
<1>5. CASE Fail(q)
  BY <1>1, <1>5 DEF Fail
<1> QED
  BY <1>2, <1>3, <1>4, <1>5 DEF Serve, ServeToggle

\* Who is quiet has just arrived, has been served, or saw its concern stay.
LEMMA QuietStep ==
  ASSUME IndInv, [Next]_vars, NEW p \in Procs, quiet'[p], req'[p] # NULL
  PROVE  \/ Arrive(p)
         \/ quiet[p] /\ Serve(p)
         \/ quiet[p] /\ req'[p] = req[p] /\ Concern(req[p])' = Concern(req[p])
<1>1. ASSUME NEW by \in SUBSET Procs, Noticed(by)
      PROVE  quiet[p] /\ (p \in by \/ Concern(req[p])' = Concern(req[p]))
  BY <1>1 DEF Noticed
<1>2. ASSUME UNCHANGED tableVars, req'[p] = req[p]
      PROVE  Concern(req[p])' = Concern(req[p])
  BY <1>2 DEF tableVars, taskVars, settingVars, Concern, CompletionsOf, Existing
<1>3. ASSUME NEW q \in Procs, q # p, Arrive(q)
      PROVE  req'[p] = req[p] /\ quiet' = quiet /\ UNCHANGED tableVars
  BY <1>3 DEF Arrive, Arrives, IndInv, Requests
<1>4. ASSUME NEW q \in Procs, q # p, Serve(q) \/ Fail(q)
      PROVE  req'[p] = req[p]
  BY <1>4, OthersWait
<1>5. ~Fail(p)
  BY DEF Fail, Reply, IndInv, Requests
<1>6. CASE \E q \in Procs : Arrive(q)
  BY <1>2, <1>3, <1>6
<1>7. ASSUME NEW q \in Procs, Serve(q) \/ Fail(q), Noticed({q})
      PROVE  quiet[p] /\ (Serve(p) \/ (req'[p] = req[p] /\ Concern(req[p])' = Concern(req[p])))
  BY <1>1, <1>4, <1>5, <1>7
<1>8. CASE (Others \/ Midnight) /\ Noticed({})
  BY <1>1, <1>8 DEF Others, Midnight
<1>9. CASE UNCHANGED vars
  BY <1>2, <1>9 DEF vars
<1> QED
  BY <1>6, <1>7, <1>8, <1>9 DEF Next

LEMMA UndisturbedStep ==
  ASSUME IndInv, Undisturbed, [Next]_vars
  PROVE  Undisturbed'
<1> SUFFICES ASSUME NEW p \in Procs, quiet'[p], Toggling(p)' PROVE Finds(req[p])'
  BY DEF Undisturbed
<1>1. CASE Arrive(p)
  <2>1. PICK r : Arrives(p, r)
    BY <1>1 DEF Arrive
  <2>2. \A t : Arrives(p, t) => t.op = "toggle"
    BY DEF Arrives, Toggling, IndInv, Requests
  <2>3. PICK u, i, due, partial : Arrives(p, ToggleRequest(u, i, due, partial))
    <3>1. /\ \A row : ~Arrives(p, CreateRequest(row))
          /\ \A i, row : ~Arrives(p, UpdateRequest(i, row))
          /\ \A i, act : ~Arrives(p, ActiveRequest(i, act))
      BY <2>2 DEF CreateRequest, UpdateRequest, ActiveRequest
    <3>2. /\ \A i : ~Arrives(p, DeleteRequest(i))
          /\ \A i, delta : ~Arrives(p, MoveRequest(i, delta))
          /\ \A u, dates : ~Arrives(p, ResetRequest(u, dates))
      BY <2>2 DEF DeleteRequest, MoveRequest, ResetRequest
    <3> QED
      BY <1>1, <3>1, <3>2 DEF Arrive
  <2>4. req'[p] = ToggleRequest(u, i, due, partial) /\ completions' = completions
    BY <2>3 DEF Arrives, IndInv, Requests, tableVars
  <2>5. /\ req'[p].at = "list" /\ req'[p].shown = NULL
        /\ req'[p].first = HasCompletion(req'[p].user, req'[p].task, req'[p].due)
    BY <2>4 DEF ToggleRequest
  <2> QED
    BY <2>4, <2>5 DEF Finds, Building, Has, HasCompletion, CompletionsOf
<1>2. CASE quiet[p] /\ Serve(p)
  <2>1. ServeToggle(p)
    BY <1>2, NoToggle DEF Serve
  <2>2. Toggling(p)
    BY <2>1, ServesToggle
  <2>3. Finds(req[p])
    BY <1>2, <2>2 DEF Undisturbed
  <2> QED
    BY <2>1, <2>3, ToggleFinds DEF Toggling
<1>3. CASE quiet[p] /\ req'[p] = req[p] /\ Concern(req[p])' = Concern(req[p])
  <2>1. Toggling(p) /\ Finds(req[p])
    BY <1>3 DEF Undisturbed, Toggling
  <2>2. TablesTypeOK' /\ [TrackerNext]_tableVars
    BY StepFollows DEF Follows, IndInv
  <2> QED
    BY <1>3, <2>1, <2>2, StillFinds
<1> QED
  BY <1>1, <1>2, <1>3, QuietStep DEF Toggling

\* A toggle whose task, settings, periods and completions no other request
\* changes answers with the opposite of what it found, however other statements
\* and midnight interleave with its own: the page, built of reads of its own,
\* agrees with the row written, and leaves the row out only if it is exempt, or
\* its date not in the section (ToggleAsOf; buildInner, renderToggleFragments).
THEOREM TogglesShowTheirEffect == Spec => []AnswerShowsToggle
<1>1. Init => IndInv /\ Undisturbed
  BY InitIndInv DEF Init, Undisturbed, Toggling
<1>2. IndInv /\ Undisturbed /\ [Next]_vars => (IndInv /\ Undisturbed)'
  BY StepFollows, UndisturbedStep
<1>3. Undisturbed => AnswerShowsToggle
  BY DEF Undisturbed, AnswerShowsToggle, Serving, Toggling, Finds, Shows
<1> QED
  BY <1>1, <1>2, <1>3, PTL DEF Spec

-----------------------------------------------------------------------------
(***************************************************************************)
(* A move that nothing disturbs.                                           *)
(***************************************************************************)
Moving(p) == req[p] # NULL /\ req[p].op = "move"

\* What is not yet to be numbered has its number.
Orders(p) ==
  req[p].at = "write" =>
    /\ Lists(req[p].goal) /\ req[p].places \subseteq 1 .. Size
    /\ \A k \in 1 .. Size : k \notin req[p].places => tasks[req[p].goal[k]].seq = 10 * k

Ordering == \A p \in Procs : quiet[p] /\ Moving(p) => Orders(p)

LEMMA ExchangedLists ==
  ASSUME TablesTypeOK, NEW list, Lists(list), NEW m \in 1 .. Size, NEW n \in 1 .. Size
  PROVE  Lists(Exchanged(list, m, n))
<1> DEFINE goal == Exchanged(list, m, n)
           mirror(k) == IF k = m THEN n ELSE IF k = n THEN m ELSE k
<1>1. \A k \in 1 .. Size : mirror(k) \in 1 .. Size /\ goal[k] = list[mirror(k)]
                           /\ mirror(mirror(k)) = k
  BY DEF Exchanged, Lists
<1>2. goal \in [1 .. Size -> Existing]
  BY DEF Exchanged, Lists
<1> HIDE DEF goal, mirror
<1>3. \A k, l \in 1 .. Size : goal[k] = goal[l] => k = l
  <2> SUFFICES ASSUME NEW k \in 1 .. Size, NEW l \in 1 .. Size, goal[k] = goal[l] PROVE k = l
    OBVIOUS
  <2>1. mirror(k) = mirror(l)
    BY <1>1 DEF Lists
  <2>2. mirror(mirror(k)) = mirror(mirror(l))
    BY <2>1
  <2> QED  BY <1>1, <2>2
<1>4. \A i \in Existing : \E k \in 1 .. Size : goal[k] = i
  <2> SUFFICES ASSUME NEW i \in Existing PROVE \E k \in 1 .. Size : goal[k] = i
    OBVIOUS
  <2>1. PICK k \in 1 .. Size : list[k] = i
    BY DEF Lists
  <2>2. goal[mirror(k)] = i /\ mirror(k) \in 1 .. Size
    BY <1>1, <2>1
  <2> QED  BY <2>2
<1>5. Lists(goal)
  BY <1>2, <1>3, <1>4 DEF Lists
<1> QED
  BY <1>5 DEF goal

\* The list is read: the tasks in the places left out have their numbers.
LEMMA MoveStarts ==
  ASSUME IndInv, NEW p \in Procs, ListForMove(p), req'[p] # NULL
  PROVE  Orders(p)'
<1> DEFINE list == ListTasks
           idx  == {n \in 1 .. Len(list) : list[n] = req[p].task}
           m    == CHOOSE n \in idx : TRUE
           n    == m + req[p].delta
           goal == Exchanged(list, m, n)
<1>1. Lists(list) /\ Size \in Nat /\ 1 .. Len(list) = 1 .. Size
  <2>1. Lists(list) /\ Size \in Nat
    BY ListTasksLists, ExistingFinite DEF IndInv
  <2>2. DOMAIN list = 1 .. Size /\ DOMAIN list = 1 .. Len(list)
    BY <2>1, ListFits DEF Lists
  <2> QED  BY <2>1, <2>2
<1>2. ~Reply(p)
  BY DEF Reply, IndInv, Requests
<1>3. {"at", "goal", "places"} \subseteq DOMAIN req[p]
  BY ServingSound DEF ListForMove, IndInv, Sound, SoundMove
<1>4. m \in 1 .. Size /\ n \in 1 .. Size
  <2>1. {k + req[p].delta : k \in idx} \cap 1 .. Len(list) # {}
    BY <1>2 DEF ListForMove
  <2>2. PICK k \in idx : k + req[p].delta \in 1 .. Len(list)
    BY <2>1
  <2>3. m \in idx
    BY <2>2
  <2>4. m = k
    BY <1>1, <2>2, <2>3 DEF Lists
  <2> QED
    BY <1>1, <2>2, <2>4
<1>5. Lists(goal)
  BY <1>1, <1>4, ExchangedLists DEF IndInv
<1>6. /\ req'[p].at = "write" /\ req'[p].goal = goal
      /\ req'[p].places = PlacesToNumber(goal, m, n)
  <2> DEFINE t == [req[p] EXCEPT !.at = "write", !.goal = goal,
                                 !.places = PlacesToNumber(goal, m, n)]
  <2>1. req' = [req EXCEPT ![p] = t]
    BY <1>2 DEF ListForMove
  <2> HIDE DEF goal, m, n
  <2>2. t.at = "write" /\ t.goal = goal /\ t.places = PlacesToNumber(goal, m, n)
    BY <1>3
  <2> HIDE DEF t
  <2> QED
    BY <2>1, <2>2 DEF IndInv, Requests
<1> HIDE DEF goal, m, n
<1>7. /\ PlacesToNumber(goal, m, n) \subseteq 1 .. Size
      /\ \A k \in 1 .. Size : k \notin PlacesToNumber(goal, m, n) =>
           tasks[goal[k]].seq = 10 * k
  <2>1. Len(goal) = Size
    BY <1>1, <1>5 DEF Lists
  <2> QED
    BY <2>1 DEF PlacesToNumber
<1>8. tasks' = tasks
  BY DEF ListForMove, Reads, tableVars, taskVars
<1> QED
  BY <1>5, <1>6, <1>7, <1>8 DEF Orders, Lists, Size, Existing

\* One task gets its number; the others keep theirs.
LEMMA MoveNumbers ==
  ASSUME IndInv, NEW p \in Procs, WriteSequence(p), Orders(p)
  PROVE  Orders(p)'
<1>1. /\ req[p].at = "write" /\ {"at", "goal", "places"} \subseteq DOMAIN req[p]
      /\ Lists(req[p].goal) /\ req[p].places \subseteq 1 .. Size
      /\ \A k \in 1 .. Size : k \notin req[p].places => tasks[req[p].goal[k]].seq = 10 * k
  BY ServingSound DEF WriteSequence, IndInv, Sound, SoundMove, Orders
<1>2. PICK k \in req[p].places : /\ SetTaskSequence(req[p].goal[k], 10 * k)
                                 /\ req' = [req EXCEPT ![p].places = @ \ {k}]
  BY DEF WriteSequence
<1>3. /\ req'[p].at = "write" /\ req'[p].goal = req[p].goal
      /\ req'[p].places = req[p].places \ {k}
  <2>1. req'[p] = [req[p] EXCEPT !.places = @ \ {k}]
    BY <1>2 DEF IndInv, Requests
  <2> QED
    BY <1>1, <2>1
<1> DEFINE i == req[p].goal[k]
<1>4. /\ tasks \in [TaskIds -> Task \cup {NULL}] /\ NULL \notin Task
      /\ Existing \subseteq TaskIds
      /\ tasks' = [tasks EXCEPT ![i] = IF @ = NULL THEN NULL
                                       ELSE [tasks[i] EXCEPT !.seq = 10 * k]]
  BY <1>2, TablesAssumption DEF SetTaskSequence, Overwrite, IndInv, TablesTypeOK, Existing
<1>5. ASSUME NEW j \in TaskIds, tasks[j] # NULL, j = i
      PROVE  tasks'[j] # NULL /\ tasks'[j].seq = 10 * k
  <2>1. tasks'[j] = [tasks[j] EXCEPT !.seq = 10 * k] /\ tasks[j] \in Task
    BY <1>4, <1>5
  <2>2. k \in Int
    BY ServingSound DEF WriteSequence, IndInv, Sound, SoundMove, TaskIds
  <2> QED
    BY <1>4, <2>1, <2>2 DEF Task
<1>6. \A j \in TaskIds : j # i => tasks'[j] = tasks[j]
  BY <1>4
<1>7. \A j \in TaskIds : tasks[j] = NULL => tasks'[j] = NULL
  BY <1>4
<1> HIDE DEF i
<1>8. Existing' = Existing
  BY <1>5, <1>6, <1>7 DEF Existing
<1>9. Size' = Size /\ Lists(req[p].goal)'
  BY <1>1, <1>3, <1>8 DEF Size, Lists
<1>10. ASSUME NEW l \in 1 .. Size, l \notin req[p].places \ {k}
       PROVE  tasks'[req[p].goal[l]].seq = 10 * l
  <2>1. req[p].goal[l] \in TaskIds /\ tasks[req[p].goal[l]] # NULL
    BY <1>1 DEF Lists, Existing
  <2>2. CASE l = k
    BY <1>5, <2>1, <2>2 DEF i
  <2>3. CASE l # k /\ req[p].goal[l] # i
    BY <1>1, <1>6, <1>10, <2>1, <2>3
  <2>4. req[p].goal[l] = i => l = k
    BY <1>1 DEF Lists, i
  <2> QED  BY <2>2, <2>3, <2>4
<1>11. (req[p].places \subseteq 1 .. Size)'
  BY <1>1, <1>3, <1>9
<1>12. (\A l \in 1 .. Size : l \notin req[p].places => tasks[req[p].goal[l]].seq = 10 * l)'
  BY <1>3, <1>9, <1>10
<1> QED
  BY <1>9, <1>11, <1>12 DEF Orders

LEMMA OrderingStep ==
  ASSUME IndInv, Ordering, [Next]_vars
  PROVE  Ordering'
<1> SUFFICES ASSUME NEW p \in Procs, quiet'[p], Moving(p)', req'[p].at = "write"
             PROVE  Orders(p)'
  BY DEF Ordering, Orders
<1>1. CASE Arrive(p)
  <2>1. /\ \A u, i, due, partial : ~Arrives(p, ToggleRequest(u, i, due, partial))
        /\ \A row : ~Arrives(p, CreateRequest(row))
        /\ \A i, row : ~Arrives(p, UpdateRequest(i, row))
    BY DEF Arrives, Moving, IndInv, Requests, ToggleRequest, CreateRequest, UpdateRequest
  <2>2. /\ \A i, act : ~Arrives(p, ActiveRequest(i, act))
        /\ \A i : ~Arrives(p, DeleteRequest(i))
        /\ \A i, delta : ~Arrives(p, MoveRequest(i, delta))
        /\ \A u, dates : ~Arrives(p, ResetRequest(u, dates))
    BY DEF Arrives, Moving, IndInv, Requests, ActiveRequest, DeleteRequest, MoveRequest,
       ResetRequest
  <2> QED
    BY <1>1, <2>1, <2>2 DEF Arrive
<1>2. CASE quiet[p] /\ Serve(p)
  <2>1. req[p] # NULL /\ req[p].op = req'[p].op
    <3>1. req[p] # NULL /\ Sound(req[p], today, schedules, adopted)
      BY <1>2, ServesToggle DEF Serve, Toggling, ServeAdmin, GetTask,
         InsertTask, WriteUpdate, WriteActive, WriteDelete, ListForMove, WriteSequence, Moved,
         ReadSettings, GetUser, WriteReset, Serving, IndInv, Requests
    <3>2. "op" \in DOMAIN req[p]
      BY <3>1 DEF Sound
    <3>3. ~Reply(p)
      BY DEF Reply, Moving, IndInv, Requests
    <3>4. \A at : Goto(p, at) => req'[p].op = req[p].op
      BY <3>2 DEF Goto, IndInv, Requests
    <3>5. Answer(p) => req'[p].op = req[p].op
      BY <3>3, <3>4 DEF Answer
    <3>6. ASSUME ReadClock(p) \/ ReadAppSettings(p) \/ ReadHistory(p) \/ ReadTasks(p)
                   \/ ReadCompletions(p) \/ ReadPeriods(p)
          PROVE  req'[p].op = req[p].op
      <4>1. PICK t : Fills(p, t) /\ t.op = req[p].op
        BY <3>6, BuildFills
      <4> QED  BY <4>1 DEF Fills, IndInv, Requests
    <3>7. ListForMove(p) \/ WriteSequence(p) \/ ReadSettings(p) => req'[p].op = req[p].op
      <4>1. ListForMove(p) => Reply(p) \/ req'[p].op = req[p].op
        BY <3>2, ZenonT(30) DEF ListForMove, IndInv, Requests
      <4>2. WriteSequence(p) => req'[p].op = req[p].op
        BY <3>2 DEF WriteSequence, IndInv, Requests
      <4>3. ReadSettings(p) => req'[p].op = req[p].op
        BY <3>2 DEF ReadSettings, IndInv, Requests
      <4> QED  BY <3>3, <4>1, <4>2, <4>3
    <3> QED
      BY <1>2, <3>1, <3>3, <3>4, <3>5, <3>6, <3>7
      DEF Serve, ServeToggle, ServeAdmin, ListForToggle, GetCompletion, Unmark, Mark,
          MarkRefused, Confirm, SendPage, GetTask, InsertTask, WriteUpdate, WriteActive,
          WriteDelete, Moved, GetUser, WriteReset
  <2>2. Moving(p) /\ Orders(p) /\ req'[p] # NULL
    BY <1>2, <2>1 DEF Ordering, Moving
  <2>3. ~Moved(p)
    BY <2>2 DEF Moved, Reply, IndInv, Requests
  <2>4. ListForMove(p) \/ WriteSequence(p)
    BY <1>2, <2>2, <2>3, ServesToggle
    DEF Moving, Toggling, Serve, ServeAdmin, GetTask, InsertTask, WriteUpdate, WriteActive, WriteDelete, ReadSettings, GetUser, WriteReset,
        Serving
  <2> QED
    BY <2>2, <2>4, MoveStarts, MoveNumbers
<1>3. CASE quiet[p] /\ req'[p] = req[p] /\ Concern(req[p])' = Concern(req[p])
  <2>1. Moving(p) /\ Orders(p)
    BY <1>3 DEF Ordering, Moving
  <2> DEFINE now  == [i \in Existing |-> tasks[i].seq]
             then == [i \in Existing' |-> tasks'[i].seq]
  <2>2. then = now
    BY <1>3, <2>1 DEF Concern, Moving
  <2>3. DOMAIN then = DOMAIN now /\ \A i \in Existing : then[i] = now[i]
    BY <2>2
  <2>4. Existing' = Existing /\ \A i \in Existing : tasks'[i].seq = tasks[i].seq
    BY <2>3
  <2> HIDE DEF now, then
  <2>5. Size' = Size /\ (Lists(req[p].goal) => Lists(req[p].goal)')
    BY <1>3, <2>4 DEF Size, Lists
  <2>6. Lists(req[p].goal) => \A k \in 1 .. Size : req[p].goal[k] \in Existing
    BY DEF Lists
  <2> QED
    BY <1>3, <2>1, <2>4, <2>5, <2>6 DEF Orders
<1> QED
  BY <1>1, <1>2, <1>3, QuietStep DEF Moving

\* A move during which no other request numbers, creates or deletes a task
\* leaves the list with the two neighbours exchanged, all else in place, and
\* the numbers 10, 20, 30, ..., however many tasks had the same number before
\* (services/task_admin.go, Move).
THEOREM MovesExchangeNeighbours == Spec => []MoveExchanges
<1>1. Init => IndInv /\ Ordering
  BY InitIndInv DEF Init, Ordering, Moving
<1>2. IndInv /\ Ordering /\ [Next]_vars => (IndInv /\ Ordering)'
  BY StepFollows, OrderingStep
<1>3. IndInv /\ Ordering => MoveExchanges
  <2> SUFFICES ASSUME IndInv, Ordering, NEW p \in Procs, Serving(p, "move", "write"),
                      req[p].places = {}, quiet[p]
               PROVE  /\ ListTasks = req[p].goal
                      /\ \A k \in DOMAIN req[p].goal : tasks[req[p].goal[k]].seq = 10 * k
    BY DEF MoveExchanges
  <2>1. Lists(req[p].goal) /\ \A k \in 1 .. Size : tasks[req[p].goal[k]].seq = 10 * k
    BY DEF Ordering, Moving, Orders, Serving
  <2>2. DOMAIN req[p].goal = 1 .. Size
    BY <2>1 DEF Lists
  <2> QED
    BY <2>1, <2>2, ListedAsNumbered DEF IndInv
<1> QED
  BY <1>1, <1>2, <1>3, PTL DEF Spec
-----------------------------------------------------------------------------
(***************************************************************************)
(* Requests have their types.                                              *)
(***************************************************************************)
Typed ==
  /\ req   \in [Procs -> Request \cup {NULL}]
  /\ quiet \in [Procs -> BOOLEAN]

\* What a request is about says which fields it has.
LEMMA KindOfRequest ==
  ASSUME NEW r \in Request
  PROVE  /\ r.op = "toggle" => r \in Toggles
         /\ r.op = "create" => r \in Creates
         /\ r.op = "update" => r \in Updates
         /\ r.op = "active" => r \in Actives
         /\ r.op = "delete" => r \in Deletes
         /\ r.op = "move"   => r \in Moves
         /\ r.op = "reset"  => r \in Resets
<1>1. /\ r \in Toggles => r.op = "toggle"
      /\ r \in Creates => r.op = "create"
      /\ r \in Updates => r.op = "update"
      /\ r \in Actives => r.op = "active"
  BY DEF Toggles, Creates, Updates, Actives
<1>2. /\ r \in Deletes => r.op = "delete"
      /\ r \in Moves   => r.op = "move"
      /\ r \in Resets  => r.op = "reset"
  BY DEF Deletes, Moves, Resets
<1> QED
  BY <1>1, <1>2 DEF Request

\* The request that a step serves, by its kind.
LEMMA ServingKind ==
  ASSUME Typed, NEW p \in Procs, NEW op, NEW at, Serving(p, op, at)
  PROVE  /\ op = "toggle" => req[p] \in Toggles
         /\ op = "update" => req[p] \in Updates
         /\ op = "active" => req[p] \in Actives
         /\ op = "delete" => req[p] \in Deletes
         /\ op = "move"   => req[p] \in Moves
         /\ op = "reset"  => req[p] \in Resets
<1>1. req[p] \in Request /\ req[p].op = op
  BY DEF Typed, Serving
<1> QED
  BY <1>1, KindOfRequest

\* A step of one request leaves the others as they are.
LEMMA OneTyped ==
  ASSUME Typed, NEW p \in Procs, NEW r \in Request \cup {NULL}, req' = [req EXCEPT ![p] = r]
  PROVE  req' \in [Procs -> Request \cup {NULL}]
BY DEF Typed

LEMMA RepliedTyped ==
  ASSUME Typed, NEW p \in Procs, Reply(p)
  PROVE  req' \in [Procs -> Request \cup {NULL}]
BY OneTyped DEF Reply

\* A toggle that moves on.
LEMMA ToggleMovesOn ==
  ASSUME Typed, NEW p \in Procs, req[p] \in Toggles, NEW at, Goto(p, at),
         at \in {"lookup", "unmark", "mark", "confirm", "clock"}
  PROVE  req' \in [Procs -> Request \cup {NULL}]
<1>1. req' = [req EXCEPT ![p] = [req[p] EXCEPT !.at = at]]
  BY DEF Goto
<1>2. [req[p] EXCEPT !.at = at] \in Toggles
  BY DEF Toggles
<1> QED
  BY <1>1, <1>2, OneTyped DEF Request

\* A toggle that fills in a local.
LEMMA FillsTyped ==
  ASSUME Typed, NEW p \in Procs, NEW t \in Toggles, Fills(p, t)
  PROVE  req' \in [Procs -> Request \cup {NULL}]
BY OneTyped DEF Fills, Request

LEMMA AnsweredTyped ==
  ASSUME Typed, NEW p \in Procs, req[p] \in Toggles, Answer(p)
  PROVE  req' \in [Procs -> Request \cup {NULL}]
BY RepliedTyped, ToggleMovesOn DEF Answer

\* Dates of the history are dates.
LEMMA MissedFromTyped ==
  ASSUME IndInv, NEW r \in Toggles, MissedDatesOf(r) # {}
  PROVE  MissedFrom(MissedDatesOf(r)) \in Int
<1> DEFINE start == WeekStartFor(today, r.sets.weekStart) - 7 * (Later(r.sets.weeks, 1) - 1)
<1>1. today \in Int /\ r.sets \in Settings
  BY TablesAssumption DEF Toggles, IndInv, TablesTypeOK
<1>2. r.sets.weekStart \in Int /\ r.sets.weeks \in Int
  BY <1>1 DEF Settings, Weekdays
<1>3. start \in Int
  BY <1>1, <1>2 DEF WeekStartFor, Weekday, Later
<1> DEFINE last == today - 1
<1>4. MissedDatesOf(r) = start .. last /\ last \in Int
  BY <1>1 DEF MissedDatesOf, WeekDatesForHistory
<1> HIDE DEF start, last
<1> QED
  BY <1>3, <1>4, HistoryStarts

\* What the page shows of an occurrence is a status, or nothing.
LEMMA ShownTyped ==
  ASSUME NEW r, NEW inPeriods
  PROVE  StatusIn(InSection(r, Occurs(r, inPeriods))) \in Statuses \cup {NULL}
<1> DEFINE occs == InSection(r, Occurs(r, inPeriods))
           one  == CHOOSE o \in occs : TRUE
<1>1. CASE occs = {}
  BY <1>1 DEF StatusIn
<1>2. CASE occs # {}
  <2>1. one \in Occurs(r, inPeriods)
    <3>1. one \in occs
      BY <1>2
    <3> HIDE DEF one
    <3> QED  BY <3>1 DEF InSection
  <2> HIDE DEF one
  <2>2. one \in buildOccurrences([i \in {r.task} |-> r.row], r.done, inPeriods, r.asOf,
                                 r.due, r.due)
    BY <2>1 DEF Occurs
  <2>3. PICK i, d : one = Occurrence(r.row, i, d, r.done, inPeriods, r.asOf)
    BY <2>2 DEF buildOccurrences
  <2>4. one.status \in Statuses
    BY <2>3 DEF Occurrence, Statuses
  <2> QED
    BY <1>2, <2>4 DEF one, StatusIn
<1> QED
  BY <1>1, <1>2

LEMMA ToggleTyped ==
  ASSUME IndInv, Typed, NEW p \in Procs, ServeToggle(p)
  PROVE  req' \in [Procs -> Request \cup {NULL}]
<1>1. req[p] \in Toggles
  <2>1. req[p] \in Request /\ req[p].op = "toggle"
    BY ServesToggle DEF Typed, Toggling
  <2> QED  BY <2>1, KindOfRequest
<1>2. CASE ListForToggle(p) \/ GetCompletion(p) \/ Mark(p)
  BY <1>1, <1>2, ToggleMovesOn, RepliedTyped DEF ListForToggle, GetCompletion, Mark
<1>3. CASE Unmark(p) \/ MarkRefused(p) \/ Confirm(p) \/ SendPage(p)
  BY <1>1, <1>3, AnsweredTyped, RepliedTyped DEF Unmark, MarkRefused, Confirm, SendPage
<1>4. CASE ReadClock(p)
  <2>1. today \in Int
    BY TablesAssumption DEF IndInv, TablesTypeOK
  <2>2. [req[p] EXCEPT !.at = "settings", !.asOf = today] \in Toggles
    BY <1>1, <2>1 DEF Toggles
  <2> QED
    BY <1>4, <2>2, FillsTyped DEF ReadClock
<1>5. CASE ReadAppSettings(p)
  <2>1. PICK at \in {"tasks", "history"} :
          Fills(p, [req[p] EXCEPT !.at = at, !.sets = AppSettings, !.from = req[p].asOf])
    BY <1>5 DEF ReadAppSettings
  <2>2. AppSettings \in Settings
    BY SettingsInForce DEF IndInv
  <2>3. [req[p] EXCEPT !.at = at, !.sets = AppSettings, !.from = req[p].asOf] \in Toggles
    BY <1>1, <2>2 DEF Toggles
  <2> QED
    BY <2>1, <2>3, FillsTyped
<1>6. CASE ReadHistory(p)
  <2>1. CASE Fills(p, [req[p] EXCEPT !.at = "answer"])
    <3>1. [req[p] EXCEPT !.at = "answer"] \in Toggles
      BY <1>1 DEF Toggles
    <3> QED  BY <2>1, <3>1, FillsTyped
  <2>2. CASE /\ MissedDatesOf(req[p]) # {}
             /\ Fills(p, [req[p] EXCEPT !.at   = "tasks",
                                        !.from = MissedFrom(MissedDatesOf(req[p]))])
    <3>1. MissedFrom(MissedDatesOf(req[p])) \in Int
      BY <1>1, <2>2, MissedFromTyped
    <3>2. [req[p] EXCEPT !.at = "tasks", !.from = MissedFrom(MissedDatesOf(req[p]))] \in Toggles
      BY <1>1, <3>1 DEF Toggles
    <3> QED  BY <2>2, <3>2, FillsTyped
  <2> QED
    BY <1>6, <2>1, <2>2 DEF ReadHistory
<1>7. CASE ReadTasks(p)
  <2>1. PICK row \in Task \cup {NULL} :
          Fills(p, [req[p] EXCEPT !.at = "completions", !.row = row])
    BY <1>7 DEF ReadTasks, ListActiveTasks, Existing, IndInv, TablesTypeOK
  <2>2. [req[p] EXCEPT !.at = "completions", !.row = row] \in Toggles
    BY <1>1 DEF Toggles
  <2> QED
    BY <2>1, <2>2, FillsTyped
<1>8. CASE ReadCompletions(p)
  <2>1. PICK done \in SUBSET Completion :
          Fills(p, [req[p] EXCEPT !.at = "periods", !.done = done])
    BY <1>8 DEF ReadCompletions, ListCompletionsForUserInRange, IndInv, TablesTypeOK
  <2>2. [req[p] EXCEPT !.at = "periods", !.done = done] \in Toggles
    BY <1>1 DEF Toggles
  <2> QED
    BY <2>1, <2>2, FillsTyped
<1>9. CASE ReadPeriods(p)
  <2>1. PICK shown \in Statuses \cup {NULL} :
          Fills(p, [req[p] EXCEPT !.at = "answer", !.shown = shown])
    BY <1>9, ShownTyped DEF ReadPeriods
  <2>2. [req[p] EXCEPT !.at = "answer", !.shown = shown] \in Toggles
    BY <1>1 DEF Toggles
  <2> QED
    BY <2>1, <2>2, FillsTyped
<1> QED
  BY <1>2, <1>3, <1>4, <1>5, <1>6, <1>7, <1>8, <1>9 DEF ServeToggle

\* A request of the task administration, or a reset, that goes on to write.
LEMMA WritesTyped ==
  ASSUME Typed, NEW p \in Procs, Goto(p, "write"),
         req[p] \in Updates \cup Actives \cup Deletes \cup Resets
  PROVE  req' \in [Procs -> Request \cup {NULL}]
<1> DEFINE t == [req[p] EXCEPT !.at = "write"]
<1>1. req' = [req EXCEPT ![p] = t]
  BY DEF Goto
<1>2. /\ req[p] \in Updates => t \in Updates
      /\ req[p] \in Actives => t \in Actives
  BY DEF Updates, Actives
<1>3. /\ req[p] \in Deletes => t \in Deletes
      /\ req[p] \in Resets => t \in Resets
  BY DEF Deletes, Resets
<1> HIDE DEF t
<1> QED
  BY <1>1, <1>2, <1>3, OneTyped DEF Request

\* A move that has read the list has a list of tasks, and places in it.
LEMMA MoveTyped ==
  ASSUME IndInv, Typed, NEW p \in Procs, ListForMove(p)
  PROVE  req' \in [Procs -> Request \cup {NULL}]
<1>1. CASE Reply(p)
  BY <1>1, RepliedTyped
<1>2. CASE ~Reply(p)
  <2> DEFINE list == ListTasks
             idx  == {n \in 1 .. Len(list) : list[n] = req[p].task}
             m    == CHOOSE n \in idx : TRUE
             n    == m + req[p].delta
             goal == Exchanged(list, m, n)
             places == PlacesToNumber(goal, m, n)
  <2>1. Lists(list) /\ Size \in Nat /\ 1 .. Len(list) = 1 .. Size
    <3>1. Lists(list) /\ Size \in Nat
      BY ListTasksLists, ExistingFinite DEF IndInv
    <3>2. DOMAIN list = 1 .. Size /\ DOMAIN list = 1 .. Len(list)
      BY <3>1, ListFits DEF Lists
    <3> QED  BY <3>1, <3>2
  <2>2. m \in 1 .. Size /\ n \in 1 .. Size
    <3>1. {k + req[p].delta : k \in idx} \cap 1 .. Len(list) # {}
      BY <1>2 DEF ListForMove
    <3>2. PICK k \in idx : k + req[p].delta \in 1 .. Len(list)
      BY <3>1
    <3>3. m \in idx
      BY <3>2
    <3>4. m = k
      BY <2>1, <3>2, <3>3 DEF Lists
    <3> QED
      BY <2>1, <3>2, <3>4
  <2>3. req' = [req EXCEPT ![p] = [req[p] EXCEPT !.at = "write", !.goal = goal,
                                                 !.places = places]]
    BY <1>2 DEF ListForMove
  <2>4. req[p] \in Moves
    BY ServingKind DEF ListForMove
  <2> HIDE DEF list, m, n
  <2>5. Lists(goal)
    BY <2>1, <2>2, ExchangedLists DEF IndInv
  <2> HIDE DEF goal
  <2>6. goal \in Seq(TaskIds) /\ Len(goal) = Size
    <3>1. goal \in [1 .. Size -> TaskIds]
      BY <2>5 DEF Lists, Existing
    <3> QED  BY <2>1, <3>1
  <2>7. places \in SUBSET TaskIds
    <3>1. Size <= MaxTasks /\ MaxTasks \in Nat
      BY <2>1, ListFits, TablesAssumption DEF list
    <3> QED  BY <2>1, <2>6, <3>1 DEF PlacesToNumber, TaskIds
  <2> HIDE DEF places
  <2>8. [req[p] EXCEPT !.at = "write", !.goal = goal, !.places = places] \in Moves
    BY <2>4, <2>6, <2>7 DEF Moves
  <2> QED
    BY <2>3, <2>8, OneTyped DEF Request
<1> QED
  BY <1>1, <1>2

LEMMA AdminTyped ==
  ASSUME IndInv, Typed, NEW p \in Procs, ServeAdmin(p)
  PROVE  req' \in [Procs -> Request \cup {NULL}]
<1>1. CASE GetTask(p)
  <2>1. req[p] \in Updates \cup Actives \cup Deletes
    BY <1>1, ServingKind DEF GetTask
  <2> QED
    BY <1>1, <2>1, WritesTyped, RepliedTyped DEF GetTask
<1>2. CASE InsertTask(p) \/ WriteUpdate(p) \/ WriteActive(p) \/ WriteDelete(p) \/ Moved(p)
             \/ WriteReset(p)
  BY <1>2, RepliedTyped DEF InsertTask, WriteUpdate, WriteActive, WriteDelete, Moved, WriteReset
<1>3. CASE WriteSequence(p)
  <2>1. PICK k : req' = [req EXCEPT ![p] = [req[p] EXCEPT !.places = req[p].places \ {k}]]
    BY <1>3 DEF WriteSequence
  <2>2. req[p] \in Moves
    BY <1>3, ServingKind DEF WriteSequence
  <2>3. [req[p] EXCEPT !.places = req[p].places \ {k}] \in Moves
    BY <2>2 DEF Moves
  <2> QED
    BY <2>1, <2>3, OneTyped DEF Request
<1>4. CASE ReadSettings(p)
  <2> DEFINE window == WeekDatesForHistory(today, AppSettings.weekStart, AppSettings.weeks, TRUE)
  <2>1. req' = [req EXCEPT ![p] = [req[p] EXCEPT !.at = "user", !.window = window]]
    BY <1>4 DEF ReadSettings
  <2>2. window \in SUBSET Int
    BY DEF WeekDatesForHistory
  <2>3. req[p] \in Resets
    BY <1>4, ServingKind DEF ReadSettings
  <2> HIDE DEF window
  <2>4. [req[p] EXCEPT !.at = "user", !.window = window] \in Resets
    BY <2>2, <2>3 DEF Resets
  <2> QED
    BY <2>1, <2>4, OneTyped DEF Request
<1>5. CASE GetUser(p)
  <2>1. req[p] \in Resets
    BY <1>5, ServingKind DEF GetUser
  <2> QED
    BY <1>5, <2>1, WritesTyped, RepliedTyped DEF GetUser
<1> QED
  BY <1>1, <1>2, <1>3, <1>4, <1>5, MoveTyped DEF ServeAdmin

LEMMA ArrivesTyped ==
  ASSUME IndInv, Typed, NEW p \in Procs, Arrive(p)
  PROVE  Typed'
<1>1. /\ today \in Int /\ members \subseteq Users /\ Forms \subseteq Task /\ Asked \subseteq Int
      /\ \A u, i, due : HasCompletion(u, i, due) \in BOOLEAN
      /\ DefaultAppSettings \in Settings
  BY TablesAssumption DEF IndInv, TablesTypeOK, Asked, HasCompletion, DefaultAppSettings,
     Settings, Weekdays
<1>2. ASSUME NEW u \in members, NEW i \in TaskIds, NEW due \in Asked, NEW partial \in BOOLEAN
      PROVE  ToggleRequest(u, i, due, partial) \in Request
  <2>1. ToggleRequest(u, i, due, partial) \in Toggles
    BY <1>1, <1>2 DEF ToggleRequest, Toggles
  <2> QED  BY <2>1 DEF Request
<1>3. ASSUME NEW row \in Forms PROVE CreateRequest(row) \in Request
  <2>1. CreateRequest(row) \in Creates
    BY <1>1, <1>3 DEF CreateRequest, Creates
  <2> QED  BY <2>1 DEF Request
<1>4. ASSUME NEW row \in Forms, NEW i \in TaskIds PROVE UpdateRequest(i, row) \in Request
  <2>1. UpdateRequest(i, row) \in Updates
    BY <1>1, <1>4 DEF UpdateRequest, Updates
  <2> QED  BY <2>1 DEF Request
<1>5. ASSUME NEW i \in TaskIds, NEW act \in BOOLEAN PROVE ActiveRequest(i, act) \in Request
  <2>1. ActiveRequest(i, act) \in Actives
    BY <1>1, <1>5 DEF ActiveRequest, Actives
  <2> QED  BY <2>1 DEF Request
<1>6. ASSUME NEW i \in TaskIds PROVE DeleteRequest(i) \in Request
  <2>1. DeleteRequest(i) \in Deletes
    BY <1>1, <1>6 DEF DeleteRequest, Deletes
  <2> QED  BY <2>1 DEF Request
<1>7. ASSUME NEW i \in TaskIds, NEW delta \in {-1, 1} PROVE MoveRequest(i, delta) \in Request
  <2>1. MoveRequest(i, delta) \in Moves
    BY <1>1, <1>7 DEF MoveRequest, Moves
  <2> QED  BY <2>1 DEF Request
<1>8. ASSUME NEW u \in Users, NEW dates \in SUBSET Asked PROVE ResetRequest(u, dates) \in Request
  <2>1. ResetRequest(u, dates) \in Resets
    BY <1>1, <1>8 DEF ResetRequest, Resets
  <2> QED  BY <2>1 DEF Request
<1>9. PICK r \in Request : Arrives(p, r)
  <2>1. CASE \E u \in members, i \in TaskIds, due \in Asked, partial \in BOOLEAN :
               Arrives(p, ToggleRequest(u, i, due, partial))
    BY <1>2, <2>1
  <2>2. CASE \E row \in Forms :
               Arrives(p, CreateRequest(row))
               \/ \E i \in TaskIds : Arrives(p, UpdateRequest(i, row))
    BY <1>3, <1>4, <2>2
  <2>3. CASE \E i \in TaskIds, act \in BOOLEAN : Arrives(p, ActiveRequest(i, act))
    BY <1>5, <2>3
  <2>4. CASE \E i \in TaskIds : Arrives(p, DeleteRequest(i))
    BY <1>6, <2>4
  <2>5. CASE \E i \in TaskIds, delta \in {-1, 1} : Arrives(p, MoveRequest(i, delta))
    BY <1>7, <2>5
  <2>6. CASE \E u \in Users, dates \in SUBSET Asked : Arrives(p, ResetRequest(u, dates))
    BY <1>8, <2>6
  <2> QED
    BY <2>1, <2>2, <2>3, <2>4, <2>5, <2>6 DEF Arrive
<1>10. req' \in [Procs -> Request \cup {NULL}]
  BY <1>9, OneTyped DEF Arrives
<1> QED
  BY <1>9, <1>10 DEF Arrives, Typed

LEMMA TypedStep ==
  ASSUME IndInv, Typed, [Next]_vars
  PROVE  Typed'
<1>1. ASSUME NEW by, Noticed(by) PROVE quiet' \in [Procs -> BOOLEAN]
  <2>1. \A q \in Procs :
          (req'[q] = NULL \/ (quiet[q] /\ (q \in by \/ Concern(req[q])' = Concern(req[q]))))
            \in BOOLEAN
    OBVIOUS
  <2> QED
    BY Zenon, <1>1, <2>1 DEF Noticed
<1>2. ASSUME NEW p \in Procs, Serve(p) \/ Fail(p)
      PROVE  req' \in [Procs -> Request \cup {NULL}]
  BY <1>2, ToggleTyped, AdminTyped, RepliedTyped DEF Serve, Fail
<1>3. ASSUME UNCHANGED req PROVE req' \in [Procs -> Request \cup {NULL}]
  BY <1>3 DEF Typed
<1>4. CASE \E p \in Procs : Arrive(p)
  BY <1>4, ArrivesTyped
<1>5. CASE \E p \in Procs : (Serve(p) \/ Fail(p)) /\ Noticed({p})
  BY <1>1, <1>2, <1>5 DEF Typed
<1>6. CASE (Others \/ Midnight) /\ Noticed({})
  BY <1>1, <1>3, <1>6 DEF Others, Midnight, Typed
<1>7. CASE UNCHANGED vars
  BY <1>7 DEF vars, Typed
<1> QED
  BY <1>4, <1>5, <1>6, <1>7 DEF Next

\* Whatever the requests have read and are about to write has its type, at
\* every statement they come to: a toggle builds its page from a row, rows of
\* completions and dates, a move numbers a list of tasks in places of that list
\* (services/tasks.go, ToggleAsOf; task_admin.go, Move, ResetCompletions).
THEOREM RequestsTyped == Spec => []TasksTypeOK
<1>1. Init => IndInv /\ Typed
  BY InitIndInv DEF Init, Typed
<1>2. IndInv /\ Typed /\ [Next]_vars => (IndInv /\ Typed)'
  BY StepFollows, TypedStep
<1>3. IndInv /\ Typed => TasksTypeOK
  BY DEF IndInv, Typed, TasksTypeOK
<1> QED
  BY <1>1, <1>2, <1>3, PTL DEF Spec
=============================================================================
