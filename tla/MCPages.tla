------------------------------ MODULE MCPages ------------------------------
(***************************************************************************)
(* A small instance of Pages: two users with the same name but for its     *)
(* case, around dates on which months, years and weeks end.                *)
(***************************************************************************)
EXTENDS Pages

D(freq, start, end, exempt, seq) ==
  [freq |-> freq, start |-> start, end |-> end, active |-> TRUE,
   exempt |-> exempt, seq |-> seq, title |-> 0]

MCForms == {D("daily", Date(2024, 1, 30), NULL, TRUE, 10)}

\* What an administrator has entered before, a task that is due every day and
\* one that is due once in a while, and the dates on which it is interesting.
MCCatalogs ==
  {[rows |-> <<D("daily", Date(2024, 2, 1), NULL, TRUE, 10), x[1]>>, done |-> {}, days |-> x[2]] :
     x \in {<<D("monthly", Date(2024, 1, 31), NULL, FALSE, 10),
              {Date(2024, 2, 29)}>>,
            <<D("yearly", Date(2024, 2, 29), NULL, FALSE, 0),
              {Date(2025, 3, 1)}>>,
            <<D("weekly", Date(2024, 2, 29), Date(2025, 3, 2), FALSE, 10),
              {Date(2024, 12, 31)}>>}}

MCDays == {Date(2024, 2, 29), Date(2024, 3, 1), Date(2024, 12, 31), Date(2025, 3, 1)}

MCName == [u \in {1, 2} |-> 5 - u]

\* How much of a row has been changed, compared with what was entered before.
Differs(a, b) == IF a = b THEN 0 ELSE 1

Changes(row, i) ==
  IF row = NULL THEN 1
  ELSE Min({Differs(ScheduleOf(row), ScheduleOf(c.rows[i])) + Differs(row.active, TRUE)
              + Differs(row.seq, c.rows[i].seq) : c \in MCCatalogs})

\* Bound: how much has been done; what an administrator does counts twice.
MaxEffort == 3

Effort ==
  Cardinality(completions)
    + 2 * (Cardinality(periods) + Cardinality(Users \ members) + (lastTask - 2)
           + SumFunction([i \in 1 .. 2 |-> Changes(tasks[i], i)])
           + (IF settings = DefaultAppSettings THEN 0 ELSE 1))

\* Bound: four starts of the week, with a length of the history each, and one
\* change of the settings.
MCNext ==
  /\ TrackerNext
  /\ \/ UNCHANGED settings
     \/ /\ settings = DefaultAppSettings
        /\ settings' \in {[weekStart |-> d, weeks |-> 1 + (d % 4)] : d \in {0, 1, 3, 6}}
  /\ Effort' <= MaxEffort

MCSpec == TrackerInit /\ [][MCNext]_tableVars
=============================================================================
