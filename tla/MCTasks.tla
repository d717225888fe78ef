------------------------------ MODULE MCTasks ------------------------------
(***************************************************************************)
(* A small instance of Tasks: two requests at a time, tasks that all have  *)
(* the number 0 of the first releases, and one midnight.                   *)
(***************************************************************************)
EXTENDS Tasks

VARIABLE asked    \* how many requests have arrived, of these and of others

\* Bound: requests in one behaviour.
CONSTANT MaxAsked

Entered(freq, start, exempt) ==
  [freq |-> freq, start |-> start, end |-> NULL, active |-> TRUE,
   exempt |-> exempt, seq |-> 0, title |-> 0]

\* The day on which a new week starts, at first.
Saturday == Date(2024, 12, 28)

\* Due on Saturdays only.
MCForms == {Entered("weekly", Saturday, FALSE)}

MCDays == {Saturday, Saturday + 1}

MCCatalogs ==
  {[rows |-> <<Entered("daily", Saturday - 1, TRUE), Entered("weekly", Saturday, FALSE),
               Entered("daily", Saturday - 1, FALSE)>>,
     done |-> {[user |-> 1, task |-> 1, due |-> Saturday, at |-> Saturday]},
     days |-> {Saturday}]}

\* Bound: no request names the task that is yet to be created.
Known(r) == "task" \in DOMAIN r => r.task < MaxTasks

\* The first free goroutine takes a request: the others would do the same.
FirstFree(p) == \A q \in Procs : q < p => req[q] # NULL

Asks == asked < MaxAsked /\ asked' = asked + 1

\* Bound: the day ends while a request is served.
MCNext ==
  \/ \E p \in Procs :
       \/ FirstFree(p) /\ Arrive(p) /\ Known(req'[p]) /\ Asks
       \/ (Serve(p) \/ Fail(p)) /\ Noticed({p}) /\ UNCHANGED asked
  \/ Others /\ Noticed({}) /\ Asks
       /\ settings' \in {settings, [weekStart |-> 5, weeks |-> 1]}
  \/ (\E p \in Procs : req[p] # NULL) /\ Midnight /\ Noticed({}) /\ UNCHANGED asked

MCInit == Init /\ asked = 0

MCSpec == MCInit /\ [][MCNext]_<<vars, asked>> /\ Fairness
=============================================================================
