---------------------------- MODULE MensesProofs ----------------------------
(***************************************************************************)
(* Theorems about MensesPeriods, for any users, requests, dates and ids.   *)
(***************************************************************************)
EXTENDS MensesPeriods, FiniteSetTheorems, TLAPS

USE DEF Dates, PeriodIds, FarFuture, Ops

\* The rows and the locals are well typed from the start.
LEMMA TypeInit == Init => MensesTypeOK
BY PeriodsAssumption DEF Init, MensesTypeOK, Request, Idle, LocalsOK

\* Moving on or answering keeps the locals in order.
LEMMA LocalsStep ==
  ASSUME MensesTypeOK, NEW p \in Procs,
         \/ Reply(p)
         \/ req[p].pc # "Idle" /\ \E label \in {"Check", "Write"} : Goto(p, label)
  PROVE  req' \in [Procs -> Request] /\ \A q \in Procs : LocalsOK(req'[q])
<1>1. Idle \in Request /\ LocalsOK(Idle)
  BY PeriodsAssumption DEF Request, Idle, LocalsOK
<1>2. CASE Reply(p)
  BY <1>1, <1>2 DEF MensesTypeOK, Reply
<1>3. ASSUME req[p].pc # "Idle", NEW label \in {"Check", "Write"}, Goto(p, label)
      PROVE  req' \in [Procs -> Request] /\ \A q \in Procs : LocalsOK(req'[q])
  <2>1. req[p] \in Request /\ LocalsOK(req[p])
    BY DEF MensesTypeOK
  <2>2. [req[p] EXCEPT !.pc = label] \in Request
    BY <2>1 DEF Request
  <2>3. LocalsOK([req[p] EXCEPT !.pc = label])
    BY <2>1, <1>3 DEF Request, LocalsOK
  <2> QED
    BY <1>3, <2>2, <2>3 DEF MensesTypeOK, Goto
<1> QED
  BY <1>2, <1>3

\* A submitted request starts with the locals it needs.
LEMMA LocalsArrive ==
  ASSUME MensesTypeOK, NEW p \in Procs, Arrive(p)
  PROVE  req' \in [Procs -> Request] /\ \A q \in Procs : LocalsOK(req'[q])
<1>1. PICK u \in members :
        \/ \E start \in Dates, end \in Dates \cup {NULL} :
             \/ Submit(p, "create", u, NULL, start, end)
             \/ \E i \in 1 .. lastPeriod : Submit(p, "update", u, i, start, end)
        \/ \E i \in 1 .. lastPeriod : Submit(p, "delete", u, i, NULL, NULL)
  BY DEF Arrive
<1>2. u \in Users /\ u # NULL /\ (1 .. lastPeriod) \subseteq PeriodIds
  BY PeriodsAssumption DEF MensesTypeOK
<1>3. ASSUME NEW r \in Request, LocalsOK(r), req' = [req EXCEPT ![p] = r]
      PROVE  req' \in [Procs -> Request] /\ \A q \in Procs : LocalsOK(req'[q])
  BY <1>3 DEF MensesTypeOK
<1>4. ASSUME NEW start \in Dates, NEW end \in Dates \cup {NULL},
             Submit(p, "create", u, NULL, start, end)
      PROVE  req' \in [Procs -> Request] /\ \A q \in Procs : LocalsOK(req'[q])
  <2> DEFINE r == [op |-> "create", user |-> u, id |-> NULL, start |-> start, end |-> end,
                   pc |-> "Check"]
  <2>1. r \in Request
    BY <1>2 DEF Request
  <2>2. LocalsOK(r)
    BY <1>2, PeriodsAssumption DEF LocalsOK
  <2>3. req' = [req EXCEPT ![p] = r]
    BY <1>4 DEF Submit
  <2> QED
    BY <1>3, <2>1, <2>2, <2>3
<1>5. ASSUME NEW start \in Dates, NEW end \in Dates \cup {NULL}, NEW i \in 1 .. lastPeriod,
             Submit(p, "update", u, i, start, end)
      PROVE  req' \in [Procs -> Request] /\ \A q \in Procs : LocalsOK(req'[q])
  <2> DEFINE r == [op |-> "update", user |-> u, id |-> i, start |-> start, end |-> end,
                   pc |-> "Get"]
  <2>1. r \in Request
    BY <1>2 DEF Request
  <2>2. LocalsOK(r)
    BY <1>2, PeriodsAssumption DEF LocalsOK
  <2>3. req' = [req EXCEPT ![p] = r]
    BY <1>5 DEF Submit
  <2> QED
    BY <1>3, <2>1, <2>2, <2>3
<1>6. ASSUME NEW i \in 1 .. lastPeriod, Submit(p, "delete", u, i, NULL, NULL)
      PROVE  req' \in [Procs -> Request] /\ \A q \in Procs : LocalsOK(req'[q])
  <2> DEFINE r == [op |-> "delete", user |-> u, id |-> i, start |-> NULL, end |-> NULL,
                   pc |-> "Get"]
  <2>1. r \in Request
    BY <1>2 DEF Request
  <2>2. LocalsOK(r)
    BY <1>2, PeriodsAssumption DEF LocalsOK
  <2>3. req' = [req EXCEPT ![p] = r]
    BY <1>6 DEF Submit
  <2> QED
    BY <1>3, <2>1, <2>2, <2>3
<1> QED
  BY <1>1, <1>4, <1>5, <1>6

\* What every statement leaves well typed, one step per action.
LEMMA TypeStep == MensesTypeOK /\ [Next]_vars => MensesTypeOK'
<1> SUFFICES ASSUME MensesTypeOK, [Next]_vars PROVE MensesTypeOK'
  OBVIOUS
<1>0. late' \in [Procs -> SUBSET PeriodIds]
  BY DEF MensesTypeOK, Next, Noted, Written, vars
<1>9. CASE UNCHANGED vars
  BY <1>9 DEF vars, MensesTypeOK
<1>1. ASSUME NEW p \in Procs, Arrive(p) PROVE MensesTypeOK'
  BY <1>0, <1>1, LocalsArrive DEF Arrive, MensesTypeOK
<1>2. ASSUME NEW p \in Procs, GetPeriod(p) PROVE MensesTypeOK'
  BY <1>0, <1>2, LocalsStep DEF GetPeriod, MensesTypeOK
<1>3. ASSUME NEW p \in Procs, CheckOverlap(p) PROVE MensesTypeOK'
  BY <1>0, <1>3, LocalsStep DEF CheckOverlap, MensesTypeOK
<1>4. ASSUME NEW p \in Procs, CreateMensesPeriod(p) PROVE MensesTypeOK'
  <2>1. Row(req[p]) \in Period /\ Row(req[p]).user = req[p].user
    BY <1>4 DEF CreateMensesPeriod, MensesTypeOK, LocalsOK, Request, Row, Period
  <2>2. lastPeriod' \in 0 .. MaxPeriods /\ lastPeriod < lastPeriod'
    BY <1>4, PeriodsAssumption DEF CreateMensesPeriod, MensesTypeOK
  <2>3. periods' \in [PeriodIds -> Period \cup {NULL}]
    BY <1>4, <2>1 DEF CreateMensesPeriod, MensesTypeOK
  <2>4. ASSUME NEW i \in PeriodIds, periods'[i] # NULL
        PROVE  i <= lastPeriod' /\ periods'[i].user \in members'
    BY <1>4, <2>1, <2>4, PeriodsAssumption DEF CreateMensesPeriod, MensesTypeOK
  <2> QED
    BY <1>0, <1>4, <2>2, <2>3, <2>4, LocalsStep DEF CreateMensesPeriod, MensesTypeOK
<1>5. ASSUME NEW p \in Procs, UpdateMensesPeriod(p) PROVE MensesTypeOK'
  <2>1. /\ req[p].id \in PeriodIds
        /\ req[p].start \in Dates /\ req[p].end \in Dates \cup {NULL}
    BY <1>5 DEF UpdateMensesPeriod, MensesTypeOK, LocalsOK, Request
  <2>2. ASSUME NEW i \in PeriodIds
        PROVE  /\ periods'[i] \in Period \cup {NULL}
               /\ periods'[i] # NULL =>
                    periods[i] # NULL /\ periods'[i].user = periods[i].user
    BY <1>5, <2>1 DEF UpdateMensesPeriod, MensesTypeOK, Owned, Period
  <2>3. periods' \in [PeriodIds -> Period \cup {NULL}]
    BY <1>5, <2>2 DEF UpdateMensesPeriod, MensesTypeOK
  <2> QED
    BY <1>0, <1>5, <2>2, <2>3, LocalsStep DEF UpdateMensesPeriod, MensesTypeOK
<1>6. ASSUME NEW p \in Procs, DeleteMensesPeriod(p) PROVE MensesTypeOK'
  BY <1>0, <1>6, LocalsStep DEF DeleteMensesPeriod, MensesTypeOK
<1>7. ASSUME NEW p \in Procs, Fail(p) PROVE MensesTypeOK'
  BY <1>0, <1>7, LocalsStep DEF Fail, MensesTypeOK
<1>8. ASSUME NEW u \in Users, RemoveUser(u) PROVE MensesTypeOK'
  BY <1>0, <1>8 DEF RemoveUser, MensesTypeOK, Owned
<1> QED
  BY <1>1, <1>2, <1>3, <1>4, <1>5, <1>6, <1>7, <1>8, <1>9 DEF Next, Act, Step

\* MensesTypeOK holds in every reachable state.
THEOREM MensesTypeCorrect == Spec => []MensesTypeOK
BY TypeInit, TypeStep, PTL DEF Spec

-----------------------------------------------------------------------------
(***************************************************************************)
(* OwnRecordsOnly: three statements write periods, each with the user of   *)
(* its request in the WHERE clause; an INSERT uses an id nobody holds.     *)
(***************************************************************************)
\* Every step of Next touches a record as OwnRecordsOnly allows.
LEMMA OwnStep == MensesTypeOK /\ [Next]_vars => OwnRecordsStep
<1> SUFFICES ASSUME MensesTypeOK, [Next]_vars, NEW i \in PeriodIds,
                    periods[i] # NULL, periods'[i] # periods[i]
             PROVE  \/ /\ periods'[i] # NULL => periods'[i].user = periods[i].user
                       /\ \E p \in Procs : /\ req[p].user = periods[i].user
                                           /\ req[p].pc = "Write" /\ req'[p].pc = "Idle"
                    \/ periods'[i] = NULL /\ periods[i].user \notin members'
  BY DEF OwnRecordsStep
<1>1. ASSUME NEW p \in Procs, CreateMensesPeriod(p) PROVE FALSE
  BY <1>1, PeriodsAssumption DEF CreateMensesPeriod, MensesTypeOK
<1>2. ASSUME NEW p \in Procs, UpdateMensesPeriod(p)
      PROVE  /\ periods'[i] # NULL => periods'[i].user = periods[i].user
             /\ req[p].user = periods[i].user
             /\ req[p].pc = "Write" /\ req'[p].pc = "Idle"
  <2>1. i = req[p].id /\ Owned(i, req[p].user) /\ periods[i] \in Period
    BY <1>2 DEF UpdateMensesPeriod, MensesTypeOK
  <2>2. periods'[i] = [periods[i] EXCEPT !.start = req[p].start, !.end = req[p].end]
    BY <1>2, <2>1 DEF UpdateMensesPeriod, MensesTypeOK
  <2>3. req'[p].pc = "Idle"
    BY <1>2 DEF UpdateMensesPeriod, Reply, Idle, MensesTypeOK
  <2> QED
    BY <1>2, <2>1, <2>2, <2>3 DEF UpdateMensesPeriod, Owned, Period
<1>3. ASSUME NEW p \in Procs, DeleteMensesPeriod(p)
      PROVE  /\ periods'[i] = NULL
             /\ req[p].user = periods[i].user
             /\ req[p].pc = "Write" /\ req'[p].pc = "Idle"
  BY <1>3 DEF DeleteMensesPeriod, MensesTypeOK, Owned, Reply, Idle
<1>4. ASSUME NEW u \in Users, RemoveUser(u)
      PROVE  periods'[i] = NULL /\ periods[i].user \notin members'
  BY <1>4 DEF RemoveUser, Owned
<1>5. \/ \E p \in Procs : \/ CreateMensesPeriod(p) \/ UpdateMensesPeriod(p)
                          \/ DeleteMensesPeriod(p)
      \/ \E u \in Users : RemoveUser(u)
  BY DEF Next, Act, Step, vars, Arrive, GetPeriod, CheckOverlap, Fail
<1> QED
  BY <1>1, <1>2, <1>3, <1>4, <1>5

\* A record is changed by its owner's requests only, or goes with the account,
\* however many requests of how many users run at once.
THEOREM RecordsStayPrivate == Spec => OwnRecordsOnly
<1>1. MensesTypeOK /\ [Next]_vars => [OwnRecordsStep]_vars
  BY OwnStep
<1> QED
  BY <1>1, MensesTypeCorrect, PTL DEF Spec, OwnRecordsOnly

-----------------------------------------------------------------------------
(***************************************************************************)
(* OverlapsOnlyRaced.  The invariant is about requests that are about to   *)
(* write: what the overlap check found still holds of every record but     *)
(* those written since, which `late' remembers.                            *)
(***************************************************************************)
Saves(r) == r.pc = "Write" /\ r.op \in {"create", "update"}

Checked ==
  \A p \in Procs : Saves(req[p]) =>
    /\ Ordered(req[p])
    /\ \A j \in PeriodIds \ late[p] :
         Owned(j, req[p].user) /\ j # req[p].id => ~Overlaps(req[p], periods[j])

\* Nobody writes at the start.
LEMMA CheckedInit == Init => Checked
BY DEF Init, Idle, Checked, Saves

\* A request that saves a range has been at it before, or has just checked it.
LEMMA CheckedBefore ==
  ASSUME MensesTypeOK, [Next]_vars, NEW p \in Procs, Saves(req'[p])
  PROVE  \/ req'[p] = req[p]
         \/ /\ Ordered(req[p]) /\ Free(req[p]) /\ UNCHANGED periods
            /\ req'[p].user = req[p].user /\ req'[p].id = req[p].id
            /\ req'[p].start = req[p].start /\ req'[p].end = req[p].end
<1>1. ASSUME NEW q \in Procs, Reply(q) PROVE req'[p] = req[p]
  BY <1>1 DEF Reply, Idle, MensesTypeOK, Saves
<1>2. ASSUME NEW q \in Procs, Arrive(q) PROVE req'[p] = req[p]
  BY <1>2 DEF Arrive, Submit, MensesTypeOK, Saves
<1>3. ASSUME NEW q \in Procs, NEW label \in {"Check", "Write"}, Goto(q, label), q # p
      PROVE  req'[p] = req[p]
  BY <1>3 DEF Goto, MensesTypeOK
<1>4. ASSUME NEW label \in {"Check", "Write"}, Goto(p, label)
      PROVE  /\ req'[p].pc = label /\ req'[p].op = req[p].op
             /\ req'[p].user = req[p].user /\ req'[p].id = req[p].id
             /\ req'[p].start = req[p].start /\ req'[p].end = req[p].end
  <2>1. req'[p] = [req[p] EXCEPT !.pc = label] /\ req[p] \in Request
    BY <1>4 DEF Goto, MensesTypeOK
  <2> QED  BY <2>1 DEF Request
<1>5. ASSUME NEW q \in Procs, GetPeriod(q) PROVE req'[p] = req[p]
  <2>1. req[q].op # "create"
    BY <1>5 DEF GetPeriod, MensesTypeOK, LocalsOK
  <2> QED  BY <1>1, <1>3, <1>4, <1>5, <2>1 DEF GetPeriod, Saves
<1>6. ASSUME NEW q \in Procs, CheckOverlap(q), req'[p] # req[p]
      PROVE  /\ Ordered(req[p]) /\ Free(req[p]) /\ UNCHANGED periods
             /\ req'[p].user = req[p].user /\ req'[p].id = req[p].id
             /\ req'[p].start = req[p].start /\ req'[p].end = req[p].end
  <2>1. Ordered(req[q]) /\ Free(req[q]) /\ Goto(q, "Write") /\ UNCHANGED periods
    BY <1>1, <1>6 DEF CheckOverlap
  <2>2. q = p
    BY <1>3, <1>6, <2>1
  <2> QED  BY <1>4, <2>1, <2>2
<1>7. CASE UNCHANGED req
  BY <1>7
<1> QED
  BY <1>1, <1>2, <1>5, <1>6, <1>7
  DEF Next, Act, Step, vars, CreateMensesPeriod, UpdateMensesPeriod, DeleteMensesPeriod,
      Fail, RemoveUser

\* A record of p's user that is not in `late' after the step was not before,
\* and is as it was.
LEMMA NotLate ==
  ASSUME MensesTypeOK, [Next]_vars, NEW p \in Procs, Saves(req'[p]), req'[p] = req[p],
         NEW j \in PeriodIds \ late'[p], Owned(j, req[p].user)'
  PROVE  j \notin late[p] /\ Owned(j, req[p].user) /\ periods'[j] = periods[j]
<1>1. CASE UNCHANGED vars
  BY <1>1 DEF vars, Owned
<1>2. CASE Noted
  <2>1. late'[p] = late[p] \cup Written(req[p].user)
    BY <1>2 DEF Noted, Saves
  <2> QED  BY <2>1 DEF Written, Owned
<1> QED  BY <1>1, <1>2 DEF Next

\* What was checked stays true of the records that are not late.
LEMMA CheckedStep == MensesTypeOK /\ Checked /\ [Next]_vars => Checked'
<1> SUFFICES ASSUME MensesTypeOK, Checked, [Next]_vars, NEW p \in Procs, Saves(req'[p])
             PROVE  /\ Ordered(req'[p])
                    /\ \A j \in PeriodIds \ late'[p] :
                         Owned(j, req[p].user)' /\ j # req'[p].id
                           => ~Overlaps(req'[p], periods'[j])
  BY DEF Checked
<1>1. CASE req'[p] = req[p]
  BY <1>1, NotLate DEF Checked
<1>2. CASE req'[p] # req[p]
  <2>1. /\ Ordered(req[p]) /\ Free(req[p]) /\ UNCHANGED periods
        /\ req'[p].user = req[p].user /\ req'[p].id = req[p].id
        /\ req'[p].start = req[p].start /\ req'[p].end = req[p].end
    BY <1>2, CheckedBefore
  <2> QED  BY <2>1 DEF Free, Owned, Overlaps, Ordered
<1> QED  BY <1>1, <1>2

\* A new or a changed row is what a request of its owner saves; the other rows
\* stay as they are.
LEMMA SavedRow ==
  ASSUME MensesTypeOK, [Next]_vars,
         NEW i \in PeriodIds, periods'[i] # periods[i], periods'[i] # NULL
  PROVE  \E p \in Procs :
           /\ Saves(req[p]) /\ req'[p].pc = "Idle"
           /\ \A j \in PeriodIds \ {i} : j # req[p].id /\ periods'[j] = periods[j]
           /\ periods'[i].user = req[p].user
           /\ periods'[i].start = req[p].start /\ periods'[i].end = req[p].end
<1>1. ASSUME NEW p \in Procs, Reply(p) PROVE req'[p].pc = "Idle"
  BY <1>1 DEF Reply, Idle, MensesTypeOK
<1>2. ASSUME NEW p \in Procs, CreateMensesPeriod(p)
      PROVE  /\ Saves(req[p]) /\ req'[p].pc = "Idle"
             /\ \A j \in PeriodIds \ {i} : j # req[p].id /\ periods'[j] = periods[j]
             /\ periods'[i].user = req[p].user
             /\ periods'[i].start = req[p].start /\ periods'[i].end = req[p].end
  <2>1. i = lastPeriod + 1 /\ periods'[i] = Row(req[p])
    BY <1>2 DEF CreateMensesPeriod, MensesTypeOK
  <2>2. \A j \in PeriodIds \ {i} : periods'[j] = periods[j]
    BY <1>2, <2>1 DEF CreateMensesPeriod, MensesTypeOK
  <2>3. req[p].id = NULL /\ NULL \notin PeriodIds
    BY <1>2, PeriodsAssumption DEF CreateMensesPeriod, MensesTypeOK, LocalsOK
  <2> QED  BY <1>1, <1>2, <2>1, <2>2, <2>3 DEF CreateMensesPeriod, Row, Saves
<1>3. ASSUME NEW p \in Procs, UpdateMensesPeriod(p)
      PROVE  /\ Saves(req[p]) /\ req'[p].pc = "Idle"
             /\ \A j \in PeriodIds \ {i} : j # req[p].id /\ periods'[j] = periods[j]
             /\ periods'[i].user = req[p].user
             /\ periods'[i].start = req[p].start /\ periods'[i].end = req[p].end
  <2>1. i = req[p].id /\ Owned(i, req[p].user) /\ periods[i] \in Period
    BY <1>3 DEF UpdateMensesPeriod, MensesTypeOK, Owned
  <2>2. periods'[i] = [periods[i] EXCEPT !.start = req[p].start, !.end = req[p].end]
    BY <1>3, <2>1 DEF UpdateMensesPeriod, MensesTypeOK
  <2>3. \A j \in PeriodIds \ {i} : periods'[j] = periods[j]
    BY <1>3, <2>1 DEF UpdateMensesPeriod, MensesTypeOK
  <2> QED  BY <1>1, <1>3, <2>1, <2>2, <2>3 DEF UpdateMensesPeriod, Saves, Owned, Period
<1>4. ASSUME NEW p \in Procs, DeleteMensesPeriod(p) PROVE FALSE
  BY <1>4 DEF DeleteMensesPeriod, MensesTypeOK
<1>5. ASSUME NEW u \in Users, RemoveUser(u) PROVE FALSE
  BY <1>5 DEF RemoveUser
<1>6. \E p \in Procs : CreateMensesPeriod(p) \/ UpdateMensesPeriod(p)
  BY <1>4, <1>5 DEF Next, Act, Step, vars, Arrive, GetPeriod, CheckOverlap, Fail
<1> QED  BY <1>2, <1>3, <1>6

\* Every step writes as OverlapsOnlyRaced allows: what is not late was checked.
LEMMA OverlapsStep == MensesTypeOK /\ Checked /\ [Next]_vars => OverlapStep
<1> SUFFICES ASSUME MensesTypeOK, Checked, [Next]_vars,
                    NEW i \in PeriodIds, NEW j \in PeriodIds, i # j,
                    periods'[i] # periods[i], periods'[i] # NULL, periods'[j] # NULL,
                    periods'[i].user = periods'[j].user,
                    NEW day \in Dates, Covers(periods'[i], day), Covers(periods'[j], day)
             PROVE  \E p \in Procs : /\ req[p].pc = "Write" /\ req'[p].pc = "Idle"
                                     /\ req[p].user = periods'[i].user
                                     /\ j \in late[p]
  BY DEF OverlapStep, ShareDay
<1>1. PICK p \in Procs :
        /\ Saves(req[p]) /\ req'[p].pc = "Idle"
        /\ \A k \in PeriodIds \ {i} : k # req[p].id /\ periods'[k] = periods[k]
        /\ periods'[i].user = req[p].user
        /\ periods'[i].start = req[p].start /\ periods'[i].end = req[p].end
  BY SavedRow
<1>2. periods[j] \in Period /\ Owned(j, req[p].user) /\ j # req[p].id
  BY <1>1 DEF MensesTypeOK, Owned
<1>3. req[p].start \in Dates /\ req[p].end \in Dates \cup {NULL}
  BY <1>1 DEF MensesTypeOK, LocalsOK, Request, Saves
<1>4. Covers(req[p], day) /\ Covers(periods[j], day)
  BY <1>1, <1>2 DEF Covers
<1>5. Overlaps(req[p], periods[j])
  BY <1>2, <1>3, <1>4, PeriodsAssumption DEF Overlaps, EndOf, Covers, Period
<1>6. j \in late[p]
  BY <1>1, <1>2, <1>5 DEF Checked
<1> QED  BY <1>1, <1>6 DEF Saves

\* However many requests of how many users run at once: a record that is
\* written shares no day with another of its user, unless that one was written
\* between this request's overlap check and its write.
THEOREM RecordsOverlapOnlyWhenRaced == Spec => OverlapsOnlyRaced
<1>1. MensesTypeOK /\ Checked /\ [Next]_vars => [OverlapStep]_vars
  BY OverlapsStep
<1> QED
  BY <1>1, CheckedInit, CheckedStep, MensesTypeCorrect, PTL DEF Spec, OverlapsOnlyRaced

(***************************************************************************)
(* The refinement of Tracker.                                              *)
(***************************************************************************)

\* The ids that have a row.
RecordedIds == {i \in PeriodIds : periods[i] # NULL}

\* There are no more rows than ids that have one.
LEMMA FewRows ==
  ASSUME NEW S, S \subseteq PeriodIds, IsFiniteSet(S), Recorded = {periods[i] : i \in S}
  PROVE  /\ OneStep!Cardinality(Recorded) <= Cardinality(S)
         /\ OneStep!Cardinality(Recorded) \in Nat
<1> DEFINE f == [i \in S |-> periods[i]]
<1>1. f \in Surjection(S, Recorded)
  <2>1. f \in [S -> Recorded] /\ \A x \in Recorded : \E i \in S : f[i] = x
    OBVIOUS
  <2> QED  BY <2>1 DEF Surjection
<1>2. IsFiniteSet(Recorded) /\ Cardinality(Recorded) <= Cardinality(S)
  BY <1>1, FS_Surjection
<1>3. OneStep!Cardinality(Recorded) = Cardinality(Recorded)
  BY DEF OneStep!Cardinality, Cardinality
<1> QED  BY <1>2, <1>3, FS_CardinalityType

\* The ids handed out bound those that have a row.
LEMMA FewIds ==
  ASSUME MensesTypeOK
  PROVE  /\ IsFiniteSet(RecordedIds)
         /\ Cardinality(RecordedIds) \in Nat /\ Cardinality(RecordedIds) <= lastPeriod
<1>1. lastPeriod \in Nat /\ RecordedIds \subseteq 1 .. lastPeriod
  BY PeriodsAssumption DEF RecordedIds, MensesTypeOK
<1>2. IsFiniteSet(1 .. lastPeriod) /\ Cardinality(1 .. lastPeriod) = lastPeriod
  BY <1>1, FS_Interval
<1> QED  BY <1>1, <1>2, FS_Subset, FS_CardinalityType

\* As long as there are ids, there is room for a row.
LEMMA Room ==
  ASSUME MensesTypeOK, lastPeriod < MaxPeriods
  PROVE  OneStep!Cardinality(Recorded) < MaxPeriods
<1>1. lastPeriod \in Nat /\ MaxPeriods \in Nat
  BY PeriodsAssumption DEF MensesTypeOK
<1>2. RecordedIds \subseteq PeriodIds /\ Recorded = {periods[i] : i \in RecordedIds}
  BY DEF RecordedIds, Recorded
<1>3. /\ OneStep!Cardinality(Recorded) <= Cardinality(RecordedIds)
      /\ OneStep!Cardinality(Recorded) \in Nat
  BY <1>2, FewIds, FewRows
<1> QED  BY <1>1, <1>3, FewIds

\* Where two ids have the same row, there is room for another.
LEMMA RoomOfTwin ==
  ASSUME MensesTypeOK, NEW i \in RecordedIds,
         \E j \in RecordedIds \ {i} : periods[j] = periods[i]
  PROVE  OneStep!Cardinality(Recorded) < MaxPeriods
<1> DEFINE S == RecordedIds \ {i}
<1>1. lastPeriod \in Nat /\ MaxPeriods \in Nat /\ lastPeriod <= MaxPeriods
  BY PeriodsAssumption DEF MensesTypeOK
<1>2. S \subseteq PeriodIds /\ Recorded = {periods[j] : j \in S}
  BY DEF RecordedIds, Recorded
<1>3. IsFiniteSet(S) /\ Cardinality(S) = Cardinality(RecordedIds) - 1
  BY FewIds, FS_RemoveElement
<1> HIDE DEF S
<1>4. /\ OneStep!Cardinality(Recorded) <= Cardinality(S)
      /\ OneStep!Cardinality(Recorded) \in Nat
  BY <1>2, <1>3, FewRows
<1> QED  BY <1>1, <1>3, <1>4, FewIds

\* The tracker's users may submit every row.
LEMMA FormsOfTracker ==
  ASSUME NEW u \in Users, NEW row \in Period, row.user = u
  PROVE  row \in OneStep!PeriodForms(u)
BY PeriodsAssumption DEF OneStep!PeriodForms, OneStep!Asked, Period, Dates

\* Adding a row to those recorded is a step of the tracker.
LEMMA Records ==
  ASSUME MensesTypeOK, NEW row \in Period, Ordered(row), row.user \in members,
         Recorded' = Recorded \cup {row}, members' = members,
         OneStep!Cardinality(Recorded) < MaxPeriods
  PROVE  OneStep!TrackerNext
<1>1. OneStep!Recordable(row.user, row)
  BY DEF OneStep!Recordable, Ordered
<1>2. OneStep!RecordPeriod(row.user, row)
  BY <1>1 DEF OneStep!RecordPeriod, OneStep!taskVars, OneStep!settingVars
<1>3. row.user \in Users /\ row \in OneStep!PeriodForms(row.user)
  BY FormsOfTracker DEF Period
<1> QED  BY <1>2, <1>3 DEF OneStep!TrackerNext, OneStep!UserStep

\* An INSERT adds the row that was submitted.
LEMMA CreateMaps ==
  ASSUME MensesTypeOK, Checked, NEW p \in Procs, CreateMensesPeriod(p)
  PROVE  OneStep!TrackerNext
<1> DEFINE row == Row(req[p])
           n   == lastPeriod + 1
<1>1. row \in Period /\ row.user \in members /\ Ordered(row)
  BY DEF CreateMensesPeriod, MensesTypeOK, LocalsOK, Request, Row, Period, Checked, Saves,
         Ordered
<1>2. n \in PeriodIds /\ periods[n] = NULL
  BY PeriodsAssumption DEF CreateMensesPeriod, MensesTypeOK
<1>3. Recorded' = Recorded \cup {row}
  <2>1. \A i \in PeriodIds : periods'[i] = IF i = n THEN row ELSE periods[i]
    BY DEF CreateMensesPeriod, MensesTypeOK
  <2>2. row # NULL
    BY <1>1, PeriodsAssumption
  <2> HIDE DEF row, n
  <2> QED  BY <1>2, <2>1, <2>2 DEF Recorded
<1>4. OneStep!Cardinality(Recorded) < MaxPeriods /\ members' = members
  BY Room DEF CreateMensesPeriod
<1> HIDE DEF row
<1> QED  BY <1>1, <1>3, <1>4, Records

\* An UPDATE replaces its row; if another id has the same row, which two
\* requests at once may bring about, the row it writes is added.
LEMMA UpdateMaps ==
  ASSUME MensesTypeOK, Checked, NEW p \in Procs, UpdateMensesPeriod(p)
  PROVE  OneStep!TrackerNext \/ UNCHANGED <<members, periods>>
<1> DEFINE i   == req[p].id
           u   == req[p].user
           old == periods[i]
           row == [old EXCEPT !.start = req[p].start, !.end = req[p].end]
<1>1. /\ u \in Users /\ i \in PeriodIds /\ Ordered(req[p])
      /\ req[p].start \in Dates /\ req[p].end \in Dates \cup {NULL}
  BY DEF UpdateMensesPeriod, MensesTypeOK, LocalsOK, Request, Checked, Saves
<1>2. CASE ~Owned(i, u)
  BY <1>2 DEF UpdateMensesPeriod, MensesTypeOK
<1>3. CASE Owned(i, u)
  <2>1. old \in Period /\ old.user = u /\ u \in members /\ i \in RecordedIds
    BY <1>1, <1>3 DEF MensesTypeOK, Owned, RecordedIds
  <2>2. row \in Period /\ row.user = u /\ Ordered(row)
    BY <1>1, <2>1 DEF Period, Ordered
  <2>3. periods' = [periods EXCEPT ![i] = row] /\ members' = members
    BY <1>3 DEF UpdateMensesPeriod
  <2>4. row # NULL
    BY <2>2, PeriodsAssumption
  <2> HIDE DEF row
  <2>5. \A j \in PeriodIds : periods'[j] = IF j = i THEN row ELSE periods[j]
    BY <2>3 DEF MensesTypeOK
  <2>6. Recorded' = {periods[j] : j \in RecordedIds \ {i}} \cup {row}
    BY <1>1, <2>4, <2>5 DEF Recorded, RecordedIds
  <2>7. CASE \E j \in RecordedIds \ {i} : periods[j] = old
    <3>1. Recorded' = Recorded \cup {row}
      BY <2>1, <2>6, <2>7 DEF Recorded, RecordedIds
    <3>2. OneStep!Cardinality(Recorded) < MaxPeriods
      BY <2>1, <2>7, RoomOfTwin
    <3> QED  BY <2>1, <2>2, <2>3, <3>1, <3>2, Records
  <2>8. CASE \A j \in RecordedIds \ {i} : periods[j] # old
    <3>1. Recorded' = (Recorded \ {old}) \cup {row}
      BY <2>1, <2>6, <2>8 DEF Recorded, RecordedIds
    <3>2. OneStep!ChangePeriod(u, old, row)
      BY <2>1, <2>2, <2>3, <3>1
      DEF OneStep!ChangePeriod, OneStep!Recordable, Ordered, OneStep!taskVars,
          OneStep!settingVars
    <3>3. old \in Recorded /\ row \in OneStep!PeriodForms(u)
      BY <2>1, <2>2, <1>1, FormsOfTracker DEF Recorded, RecordedIds
    <3> QED  BY <1>1, <3>2, <3>3 DEF OneStep!TrackerNext, OneStep!UserStep
  <2> QED  BY <2>7, <2>8
<1> QED  BY <1>2, <1>3

\* A DELETE removes one row of the user, unless another id has the same.
LEMMA DeleteMaps ==
  ASSUME MensesTypeOK, NEW p \in Procs, DeleteMensesPeriod(p)
  PROVE  OneStep!TrackerNext \/ UNCHANGED <<members, Recorded>>
<1> DEFINE i   == req[p].id
           u   == req[p].user
           old == periods[i]
<1>1. u \in Users /\ i \in PeriodIds
  BY DEF DeleteMensesPeriod, MensesTypeOK, LocalsOK, Request
<1>2. CASE ~Owned(i, u)
  <2>1. UNCHANGED <<members, periods>>
    BY <1>2 DEF DeleteMensesPeriod, MensesTypeOK
  <2> QED  BY <2>1 DEF Recorded
<1>3. CASE Owned(i, u)
  <2>1. old.user = u /\ i \in RecordedIds /\ old \in Recorded
    BY <1>1, <1>3 DEF Owned, RecordedIds, Recorded
  <2>2. \A j \in PeriodIds : periods'[j] = IF j = i THEN NULL ELSE periods[j]
    BY <1>3 DEF DeleteMensesPeriod, MensesTypeOK
  <2>3. Recorded' = {periods[j] : j \in RecordedIds \ {i}}
    BY <2>1, <2>2 DEF Recorded, RecordedIds
  <2>4. CASE \E j \in RecordedIds \ {i} : periods[j] = old
    <3>1. Recorded' = Recorded
      BY <2>1, <2>3, <2>4 DEF Recorded, RecordedIds
    <3> QED  BY <3>1 DEF DeleteMensesPeriod
  <2>5. CASE \A j \in RecordedIds \ {i} : periods[j] # old
    <3>1. Recorded' = Recorded \ {old}
      BY <2>1, <2>3, <2>5 DEF Recorded, RecordedIds
    <3>2. OneStep!DeletePeriod(u, old)
      BY <2>1, <3>1
      DEF OneStep!DeletePeriod, OneStep!taskVars, OneStep!settingVars, DeleteMensesPeriod
    <3> QED  BY <1>1, <2>1, <3>2 DEF OneStep!TrackerNext, OneStep!UserStep
  <2> QED  BY <2>4, <2>5
<1> QED  BY <1>2, <1>3

\* An account goes with its rows.
LEMMA RemoveMaps ==
  ASSUME MensesTypeOK, NEW u \in Users, RemoveUser(u)
  PROVE  OneStep!TrackerNext
<1>1. Recorded' = {r \in Recorded : r.user # u}
  BY DEF RemoveUser, Owned, Recorded
<1>2. OneStep!RemoveUser(u)
  BY <1>1
  DEF RemoveUser, OneStep!RemoveUser, OneStep!ForgetUser, OneStep!taskVars,
      OneStep!settingVars
<1> QED  BY <1>2 DEF OneStep!TrackerNext, OneStep!AdminStep

\* Both start with all accounts and no rows.
LEMMA InitMaps == Init => OneStep!TrackerInit
<1> SUFFICES ASSUME Init PROVE OneStep!TablesInit
  BY DEF OneStep!TrackerInit
<1>1. Recorded = {} /\ members = Users
  BY DEF Init, Recorded
<1> QED  BY <1>1 DEF OneStep!TablesInit, OneStep!TaskIds

\* However many requests of how many users run at once, their checks and writes
\* are interleaved to the effect of single steps: the tables of every reachable
\* state, and every change of them, are those of the tracker.
THEOREM PeriodsAreRecordedInOneStep == Spec => PeriodsImplementTracker
<1>1. MensesTypeOK /\ Checked /\ [Next]_vars => [OneStep!TrackerNext]_(OneStep!tableVars)
  <2> SUFFICES ASSUME MensesTypeOK, Checked, [Next]_vars
               PROVE  [OneStep!TrackerNext]_(OneStep!tableVars)
    OBVIOUS
  <2>1. ASSUME UNCHANGED <<members, Recorded>>
        PROVE  UNCHANGED OneStep!tableVars
    BY <2>1 DEF OneStep!tableVars, OneStep!taskVars, OneStep!settingVars
  <2>2. ASSUME UNCHANGED <<members, periods>>
        PROVE  UNCHANGED <<members, Recorded>>
    BY <2>2 DEF Recorded
  <2>3. \/ OneStep!TrackerNext
        \/ UNCHANGED <<members, periods>>
        \/ UNCHANGED <<members, Recorded>>
    BY CreateMaps, UpdateMaps, DeleteMaps, RemoveMaps
    DEF Next, Act, Step, Arrive, GetPeriod, CheckOverlap, Fail, vars
  <2> QED  BY <2>1, <2>2, <2>3
<1>2. Init => OneStep!TrackerInit
  BY InitMaps
<1> QED
  BY <1>1, <1>2, CheckedInit, CheckedStep, MensesTypeCorrect, PTL
  DEF Spec, PeriodsImplementTracker, OneStep!TrackerSpec
=============================================================================
