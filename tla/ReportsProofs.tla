---------------------------- MODULE ReportsProofs ----------------------------
(***************************************************************************)
(* The reports, in every state of Tracker, for any users, tasks and dates: *)
(* the other pages show the same numbers, the bars split the month, and    *)
(* what an administrator sees of all users adds up.                        *)
(*                                                                         *)
(* A sum is taken over the names of what is counted: the elements of a     *)
(* finite set are counted once, each under its key (SumByKey), so two sums *)
(* are equal when they count the same set (SumOfParts).                    *)
(***************************************************************************)
EXTENDS PagesProofs

-----------------------------------------------------------------------------
(***************************************************************************)
(* Sums.                                                                   *)
(***************************************************************************)

\* Those of U whose key is in s.
Keyed(U, key, s) == {p \in U : key[p] \in s}

LEMMA KeyedFinite ==
  ASSUME NEW U, IsFiniteSet(U), NEW key, NEW s
  PROVE  IsFiniteSet(Keyed(U, key, s)) /\ Cardinality(Keyed(U, key, s)) \in Nat
<1>1. Keyed(U, key, s) \in SUBSET U
  BY DEF Keyed
<1> QED
  BY <1>1, FS_Subset, FS_CardinalityType

LEMMA KeyedStep ==
  ASSUME NEW U, IsFiniteSet(U), NEW key, NEW s, NEW x \in s
  PROVE  Cardinality(Keyed(U, key, s))
           = Cardinality(Keyed(U, key, {x})) + Cardinality(Keyed(U, key, s \ {x}))
<1> DEFINE A == Keyed(U, key, {x})
           B == Keyed(U, key, s \ {x})
<1>1. Keyed(U, key, s) = A \cup B /\ A \cap B = {}
  BY DEF Keyed
<1>2. /\ IsFiniteSet(A) /\ IsFiniteSet(B)
      /\ Cardinality(A) \in Nat /\ Cardinality(B) \in Nat
  BY KeyedFinite
<1> HIDE DEF A, B
<1>3. Cardinality(A \cup B) = Cardinality(A) + Cardinality(B) - Cardinality(A \cap B)
  BY <1>2, FS_Union
<1>4. Cardinality(A \cap B) = 0
  BY <1>1, FS_EmptySet
<1>5. Cardinality(Keyed(U, key, s)) = Cardinality(A) + Cardinality(B)
  BY <1>1, <1>2, <1>3, <1>4
<1> QED
  BY <1>5 DEF A, B

\* The sum of a function that counts, for each x, those whose key it is.
LEMMA SumByKey ==
  ASSUME NEW U, IsFiniteSet(U), NEW key, NEW X, IsFiniteSet(X),
         NEW f, f = [x \in X |-> Cardinality(Keyed(U, key, {x}))]
  PROVE  SumFunction(f) = Cardinality(Keyed(U, key, X))
<1> DEFINE first(s) == CHOOSE x \in s : TRUE
           Step(g) == [s \in SUBSET X |-> IF s = {} THEN 0
                                         ELSE f[first(s)] + g[s \ {first(s)}]]
           iter == CHOOSE g : g = Step(g)
           sol == [s \in SUBSET X |-> Cardinality(Keyed(U, key, s))]
<1>1. DOMAIN f = X /\ \A x \in X : f[x] = Cardinality(Keyed(U, key, {x}))
  OBVIOUS
<1>2. SumFunction(f) = iter[X]
  BY <1>1 DEF SumFunction, SumFunctionOnSet, FoldFunctionOnSet, MapThenFoldSet
<1>3. \A s : s # {} => first(s) \in s
  OBVIOUS
<1> HIDE DEF first
<1>4. sol = Step(sol)
  <2>1. ASSUME NEW s \in SUBSET X
        PROVE  sol[s] = IF s = {} THEN 0 ELSE f[first(s)] + sol[s \ {first(s)}]
    <3>1. CASE s = {}
      <4>1. Keyed(U, key, {}) = {}
        BY DEF Keyed
      <4> QED
        BY <3>1, <4>1, FS_EmptySet
    <3>2. CASE s # {}
      <4>1. first(s) \in s /\ first(s) \in X /\ s \ {first(s)} \in SUBSET X
        BY <1>3, <3>2
      <4>2. Cardinality(Keyed(U, key, s))
              = Cardinality(Keyed(U, key, {first(s)}))
                  + Cardinality(Keyed(U, key, s \ {first(s)}))
        BY <4>1, KeyedStep
      <4> QED
        BY <1>1, <3>2, <4>1, <4>2
    <3> QED
      BY <3>1, <3>2
  <2> HIDE DEF sol
  <2>2. sol = [s \in SUBSET X |-> sol[s]]
    BY DEF sol
  <2> QED
    BY <2>1, <2>2
<1>5. iter = Step(iter)
  <2> HIDE DEF Step, sol
  <2> QED
    BY <1>4
<1> HIDE DEF iter, sol
<1>6. \A s \in SUBSET X :
        /\ iter[s] = IF s = {} THEN 0 ELSE f[first(s)] + iter[s \ {first(s)}]
        /\ sol[s]  = IF s = {} THEN 0 ELSE f[first(s)] + sol[s \ {first(s)}]
  BY <1>4, <1>5
<1> HIDE DEF Step
<1>7. \A s \in SUBSET X : IsFiniteSet(s) /\ Cardinality(s) \in Nat
  BY FS_Subset, FS_CardinalityType
<1>8. \A s \in SUBSET X : iter[s] = sol[s]
  <2> DEFINE S == {n \in Nat : \E s \in SUBSET X : Cardinality(s) = n /\ iter[s] # sol[s]}
  <2>1. ASSUME S # {} PROVE FALSE
    <3>1. S \subseteq Nat
      OBVIOUS
    <3>2. PICK n \in S : \A m \in S : n <= m
      BY <2>1, <3>1, LeastNat
    <3>3. PICK s \in SUBSET X : Cardinality(s) = n /\ iter[s] # sol[s]
      OBVIOUS
    <3>4. s # {} /\ first(s) \in s
      BY <1>3, <1>6, <3>3
    <3>5. s \ {first(s)} \in SUBSET X /\ Cardinality(s \ {first(s)}) = n - 1
      <4>1. IsFiniteSet(s)
        BY <1>7
      <4>2. Cardinality(s \ {first(s)}) = Cardinality(s) - 1
        BY <3>4, <4>1, FS_RemoveElement
      <4> QED
        BY <3>3, <4>2
    <3>6. iter[s \ {first(s)}] # sol[s \ {first(s)}]
      BY <1>6, <3>3, <3>4
    <3>7. n - 1 \in Nat
      BY <1>7, <3>5
    <3>8. n - 1 \in S
      BY <3>5, <3>6, <3>7
    <3> QED
      BY <3>1, <3>2, <3>7, <3>8
  <2>2. \A s \in SUBSET X : iter[s] # sol[s] => Cardinality(s) \in S
    BY <1>7
  <2> QED
    BY <2>1, <2>2
<1>9. X \in SUBSET X
  OBVIOUS
<1> QED
  BY <1>2, <1>8, <1>9 DEF sol

-----------------------------------------------------------------------------
(***************************************************************************)
(* The report of one user.                                                 *)
(***************************************************************************)
Asks == {NoWeek} \cup {OnDate(d) : d \in Int}

LEMMA ReportWeeks ==
  ASSUME TablesTypeOK, NEW s \in Asks
  PROVE  /\ ReportWeek(s) \in Int /\ ReportWeek(NoWeek) = WeekStart
         /\ Weekday(ReportWeek(s)) = AppSettings.weekStart
<1>1. today \in Int /\ AppSettings.weekStart \in Weekdays
  BY RowsAndDates, SettingsLegal
<1>2. ReportWeek(NoWeek) = WeekStart
  BY DEF ReportWeek, parseReportWeek, NoWeek, WeekStart
<1>3. \A d \in Int : ReportWeek(OnDate(d)) = WeekStartFor(d, AppSettings.weekStart)
  BY DEF ReportWeek, parseReportWeek, OnDate
<1>4. PICK d \in Int : ReportWeek(s) = WeekStartFor(d, AppSettings.weekStart)
  BY <1>1, <1>2, <1>3 DEF Asks, WeekStart
<1> QED
  BY <1>1, <1>2, <1>4, WeekStarts

\* The occurrences that a report of the week looks at: those of the month in
\* which the week starts, and of the days of the week after it.
LastOf(ws) == Later(MonthEnd(ws), ws + 6)

Share(u, ws) == [user |-> u, occs |-> OccurrencesBetween(u, MonthStart(ws), LastOf(ws))]

LEMMA MonthAround ==
  ASSUME NEW ws \in Int
  PROVE  /\ MonthStart(ws) \in Int /\ MonthEnd(ws) \in Int /\ LastOf(ws) \in Int
         /\ MonthStart(ws) <= ws /\ ws <= MonthEnd(ws)
         /\ MonthEnd(ws) <= LastOf(ws) /\ ws + 6 <= LastOf(ws)
<1>1. PICK mn \in Int : mn = MonthOf(ws) /\ FirstOf(mn) <= ws /\ ws < FirstOf(mn + 1)
  BY MonthOfDay
<1>2. FirstOf(mn) \in Int /\ FirstOf(mn + 1) \in Int
  BY MonthLengths
<1> QED
  BY <1>1, <1>2 DEF MonthStart, MonthEnd, LastOf, Later

LEMMA OwnReport ==
  ASSUME TablesTypeOK, NEW u \in members, NEW s \in Asks
  PROVE  /\ buildReportData(u, {}, s).bars = OneReport(ReportWeek(s), <<Share(u, ReportWeek(s))>>).bars
         /\ buildReportData(u, {}, s).matrix
              = OneReport(ReportWeek(s), <<Share(u, ReportWeek(s))>>).matrix
<1> DEFINE ws == ReportWeek(s)
           sets == SetsOf(<<u>>, MonthStart(ws), LastOf(ws))
<1>1. u # Administrator
  BY NamesAssumption DEF TablesTypeOK
<1>2. selectedReportUsersForCurrent(u, ListActiveRegular, {}) = <<u>>
  BY <1>1 DEF selectedReportUsersForCurrent
<1>3. sets = <<Share(u, ws)>>
  <2> DEFINE users == <<u>>
             from == MonthStart(ws)
             to == LastOf(ws)
  <2>1. PICK N \in Nat : N = 1
    OBVIOUS
  <2>2. users = [n \in 1 .. N |-> users[n]] /\ users[1] = u
    BY <2>1
  <2> HIDE DEF users, from, to
  <2>3. SetsOf(users, from, to)
          = [k \in 1 .. N |-> [user |-> users[k], occs |-> OccurrencesBetween(users[k], from, to)]]
    BY <2>2, SetsAre
  <2>4. SetsOf(users, from, to) = <<[user |-> u, occs |-> OccurrencesBetween(u, from, to)]>>
    BY <2>1, <2>2, <2>3
  <2> QED
    BY <2>4 DEF users, from, to, Share
<1>4. /\ buildReportData(u, {}, s).bars = ReportOver(ws, sets).bars
      /\ buildReportData(u, {}, s).matrix = ReportOver(ws, sets).matrix
  BY <1>2 DEF buildReportData, ReportOn, ReportPage, LastOf
<1> HIDE DEF sets, ws
<1>5. ~(Len(sets) > 1)
  <2>1. Len(sets) = 1
    BY <1>3
  <2> QED
    BY <2>1
<1>6. ReportOver(ws, sets) = OneReport(ws, sets)
  BY <1>5 DEF ReportOver
<1> QED
  BY <1>3, <1>4, <1>6 DEF ws

\* Pairs with a common first part are as many as the second parts.
LEMMA Paired ==
  ASSUME NEW S, IsFiniteSet(S), NEW k
  PROVE  IsFiniteSet({<<k, x>> : x \in S}) /\ Cardinality({<<k, x>> : x \in S}) = Cardinality(S)
<1> DEFINE f == [x \in S |-> <<k, x>>]
           T == {<<k, x>> : x \in S}
<1>1. f \in Bijection(S, T)
  BY DEF Bijection, Injection, IsInjective, Surjection
<1> QED
  BY <1>1, FS_Bijection DEF ExistsBijection

LEMMA OwnMatrix ==
  ASSUME TablesTypeOK, NEW u, NEW ws \in Int
  PROVE  /\ OneReport(ws, <<Share(u, ws)>>).matrix.done
              = Cardinality({o \in OccurrencesBetween(u, ws, ws + 6) : IsCompleted(o)})
         /\ OneReport(ws, <<Share(u, ws)>>).matrix.due
              = Cardinality({o \in OccurrencesBetween(u, ws, ws + 6) : occurrenceCountsTowardDue(o)})
<1> DEFINE sets == <<Share(u, ws)>>
           occs == OccurrencesBetween(u, ws, ws + 6)
           all  == Occupied(sets, ws, ws + 6)
<1>1. /\ OneReport(ws, sets).matrix.done = Cardinality({x \in all : IsCompleted(x[2])})
      /\ OneReport(ws, sets).matrix.due = Cardinality({x \in all : occurrenceCountsTowardDue(x[2])})
  BY DEF OneReport, Report, buildReportMatrix, MatrixDone, MatrixDue
<1>2. InWeekOf(Share(u, ws), ws, ws + 6) = occs
  BY MonthAround, OccurrencesWithin DEF InWeekOf, Share
<1>3. DOMAIN sets = {1} /\ sets[1] = Share(u, ws)
  OBVIOUS
<1>4. all = {<<1, o>> : o \in occs}
  BY <1>2, <1>3 DEF Occupied
<1>5. IsFiniteSet(occs)
  BY OccurrencesFinite
<1> HIDE DEF all, occs, sets
<1> DEFINE done == {p \in occs : IsCompleted(p)}
           due  == {p \in occs : occurrenceCountsTowardDue(p)}
<1>6. /\ {x \in all : IsCompleted(x[2])} = {<<1, o>> : o \in done}
      /\ {x \in all : occurrenceCountsTowardDue(x[2])} = {<<1, o>> : o \in due}
  BY <1>4
<1>7. done \in SUBSET occs /\ due \in SUBSET occs
  OBVIOUS
<1> HIDE DEF done, due
<1>8. IsFiniteSet(done) /\ IsFiniteSet(due)
  BY <1>5, <1>7, FS_Subset
<1>9. /\ Cardinality({<<1, o>> : o \in done}) = Cardinality(done)
      /\ Cardinality({<<1, o>> : o \in due}) = Cardinality(due)
  BY <1>8, Paired
<1> QED
  BY <1>1, <1>6, <1>9 DEF occs, sets, done, due

-----------------------------------------------------------------------------
(***************************************************************************)
(* The same numbers on every page.                                         *)
(***************************************************************************)

\* The cells of the current week, up to today.
Past(u) == {c \in CellsOf(buildGrid(u, parseMonth(NULL, today)).weeks) :
              c.date \in WeekStart .. today}

LEMMA PastCells ==
  ASSUME TablesTypeOK, NEW u
  PROVE  /\ IsFiniteSet(Past(u))
         /\ \A c \in Past(u) : /\ c.date \in WeekStart .. today
                               /\ c.tally = Tally(OccurrencesOn(u, c.date))
         /\ \A d \in WeekStart .. today : \E c \in Past(u) : c.date = d
         /\ \A c, e \in Past(u) : c.date = e.date => c = e
<1> DEFINE mn == MonthOf(today)
           grid == buildGrid(u, mn)
<1>1. PICK startDay \in Weekdays : startDay = AppSettings.weekStart
  BY SettingsLegal
<1>2. /\ today \in Int /\ mn \in Int /\ FirstOf(mn) <= today /\ today < FirstOf(mn + 1)
      /\ FirstOf(mn) \in Int /\ FirstOf(mn + 1) \in Int
  BY RowsAndDates, MonthOfDay, MonthLengths
<1> HIDE DEF mn
<1>3. PICK start \in Int, end \in Int :
        /\ start = GridStart(mn, startDay) /\ end = GridEnd(mn, startDay)
        /\ Weekday(start) = startDay /\ start <= today /\ today <= end
  <2>1. PICK start \in Int, end \in Int, first \in Int, next \in Int :
          /\ start = GridStart(mn, startDay) /\ end = GridEnd(mn, startDay)
          /\ first = FirstOf(mn) /\ next = FirstOf(mn + 1)
          /\ Weekday(start) = startDay /\ start <= first /\ next - 1 <= end
    BY <1>2, GridSpan
  <2> QED
    BY <1>2, <2>1
<1>4. WeekStart \in Int /\ WeekStart <= today /\ today <= WeekStart + 6 /\ start <= WeekStart
  <2>1. WeekStart \in Int /\ WeekStart <= today /\ today <= WeekStart + 6
        /\ Weekday(WeekStart) = startDay
    BY <1>1, <1>2, WeekStarts DEF WeekStart
  <2> QED
    BY <1>2, <1>3, <2>1 DEF Weekday
<1> DEFINE cell(d) == Cell(u, mn, d, OccurrencesBetween(u, start, end))
<1>5. \A c : c \in CellsOf(grid.weeks) <=> \E d \in start .. end : c = cell(d)
  <2>1. Laid(u, mn, start, end, grid)
    BY <1>1, <1>2, <1>3, GridIs
  <2> HIDE DEF grid
  <2> QED
    BY <2>1 DEF Laid
<1>6. \A d : cell(d).date = d
  BY DEF Cell
<1> HIDE DEF cell
<1>7. Past(u) = {c \in CellsOf(grid.weeks) : c.date \in WeekStart .. today}
  BY DEF Past, parseMonth, mn
<1>8. \A c \in CellsOf(grid.weeks) : c.tally = Tally(OccurrencesOn(u, c.date))
  <2>1. GridShown(u, mn, grid)
    BY <1>2, GridShows
  <2> QED
    BY <2>1 DEF GridShown, MonthShown, buildDay, calendarDayFromOccurrences
<1> HIDE DEF grid
<1>9. \A c : c \in Past(u) <=> \E d \in WeekStart .. today : c = cell(d)
  <2> SUFFICES ASSUME NEW c PROVE c \in Past(u) <=> \E d \in WeekStart .. today : c = cell(d)
    OBVIOUS
  <2>1. \A d \in WeekStart .. today : d \in start .. end
    BY <1>2, <1>3, <1>4
  <2> QED
    BY <1>5, <1>6, <1>7, <2>1
<1>10. IsFiniteSet(Past(u))
  <2> DEFINE f == [d \in WeekStart .. today |-> cell(d)]
  <2>1. f \in Surjection(WeekStart .. today, Past(u))
    BY <1>9 DEF Surjection
  <2>2. IsFiniteSet(WeekStart .. today)
    BY <1>2, <1>4, FS_Interval
  <2> QED
    BY <2>1, <2>2, FS_Surjection
<1> QED
  BY <1>6, <1>7, <1>8, <1>9, <1>10

\* What counts in the current week, up to today.
Due(u)  == {o \in OccurrencesBetween(u, WeekStart, today) : o.status # "exempt"}
Achieved(u) == {o \in OccurrencesBetween(u, WeekStart, today) : o.status = "completed"}

LEMMA WeekTotals ==
  ASSUME TablesTypeOK, NEW u
  PROVE  /\ today \in Int /\ WeekStart \in Int /\ WeekStart <= today /\ today <= WeekEnd
         /\ WeekEnd = WeekStart + 6
         /\ IsFiniteSet(Due(u)) /\ IsFiniteSet(Achieved(u)) /\ Achieved(u) \subseteq Due(u)
         /\ \A o \in Due(u) : o.due \in WeekStart .. today
<1>1. today \in Int /\ WeekStart \in Int /\ WeekStart <= today /\ today <= WeekStart + 6
  <2>1. today \in Int /\ AppSettings.weekStart \in Weekdays
    BY RowsAndDates, SettingsLegal
  <2> QED
    BY <2>1, WeekStarts DEF WeekStart
<1>2. IsFiniteSet(OccurrencesBetween(u, WeekStart, today))
  BY <1>1, OccurrencesFinite
<1>3. /\ Due(u) \in SUBSET OccurrencesBetween(u, WeekStart, today)
      /\ Achieved(u) \in SUBSET OccurrencesBetween(u, WeekStart, today)
      /\ Achieved(u) \subseteq Due(u)
  BY DEF Due, Achieved
<1>4. IsFiniteSet(Due(u)) /\ IsFiniteSet(Achieved(u))
  BY <1>2, <1>3, FS_Subset
<1>5. \A o \in OccurrencesBetween(u, WeekStart, today) : o.due \in WeekStart .. today
  BY <1>1, OccurrencesAre, OccurrenceFields
<1> QED
  BY <1>1, <1>3, <1>4, <1>5 DEF WeekEnd

\* The cells of the calendar add up to the total of the dashboard.
LEMMA PastSums ==
  ASSUME TablesTypeOK, NEW u
  PROVE  /\ SumFunction([c \in Past(u) |-> c.tally.total]) = Cardinality(Due(u))
         /\ SumFunction([c \in Past(u) |-> c.tally.completed]) = Cardinality(Achieved(u))
<1> DEFINE cellOf(o) == CHOOSE c \in Past(u) : c.date = o.due
<1>1. \A o \in Due(u) : /\ o.due \in WeekStart .. today
                        /\ cellOf(o) \in Past(u) /\ cellOf(o).date = o.due
  <2>1. \A o \in Due(u) : o.due \in WeekStart .. today
    BY WeekTotals
  <2> QED
    BY <2>1, PastCells
<1> HIDE DEF cellOf
<1>2. \A o \in Due(u), c \in Past(u) : cellOf(o) = c <=> o.due = c.date
  BY <1>1, PastCells
<1> DEFINE key == [o \in Due(u) |-> cellOf(o)]
<1>3. /\ Keyed(Due(u), key, Past(u)) = Due(u)
      /\ Keyed(Achieved(u), key, Past(u)) = Achieved(u)
  BY <1>1, WeekTotals DEF Keyed
<1>4. ASSUME NEW c \in Past(u)
      PROVE  /\ c.tally.total = Cardinality(Keyed(Due(u), key, {c}))
             /\ c.tally.completed = Cardinality(Keyed(Achieved(u), key, {c}))
  <2> DEFINE d == c.date
  <2>1. d \in WeekStart .. today /\ c.tally = Tally(OccurrencesOn(u, d))
    BY PastCells
  <2>2. OccurrencesOn(u, d) = {o \in OccurrencesBetween(u, WeekStart, today) : o.due \in d .. d}
    BY <2>1, WeekTotals, OccurrencesWithin DEF OccurrencesOn
  <2>3. /\ Keyed(Due(u), key, {c}) = {o \in OccurrencesOn(u, d) : o.status # "exempt"}
        /\ Keyed(Achieved(u), key, {c})
             = {o \in {p \in OccurrencesOn(u, d) : p.status # "exempt"} : o.status = "completed"}
    <3>1. /\ Keyed(Due(u), key, {c}) = {o \in Due(u) : o.due = d}
          /\ Keyed(Achieved(u), key, {c}) = {o \in Achieved(u) : o.due = d}
      BY <1>2, WeekTotals DEF Keyed
    <3>2. /\ \A o \in Due(u) : o.due \in d .. d <=> o.due = d
          /\ Achieved(u) \subseteq Due(u)
      BY <2>1, WeekTotals
    <3> QED
      BY <2>1, <2>2, <3>1, <3>2 DEF Due, Achieved
  <2>4. /\ c.tally.total = Cardinality({o \in OccurrencesOn(u, d) : o.status # "exempt"})
        /\ c.tally.completed
             = Cardinality({o \in {p \in OccurrencesOn(u, d) : p.status # "exempt"} :
                              o.status = "completed"})
    <3> HIDE DEF d
    <3> QED
      BY <2>1 DEF Tally
  <2> QED
    BY <2>3, <2>4
<1> DEFINE total == [c \in Past(u) |-> c.tally.total]
           completed == [c \in Past(u) |-> c.tally.completed]
<1>5. /\ total = [c \in Past(u) |-> Cardinality(Keyed(Due(u), key, {c}))]
      /\ completed = [c \in Past(u) |-> Cardinality(Keyed(Achieved(u), key, {c}))]
  BY <1>4
<1> HIDE DEF key, total, completed
<1>6. SumFunction(total) = Cardinality(Keyed(Due(u), key, Past(u)))
  BY <1>5, PastCells, WeekTotals, SumByKey
<1>7. SumFunction(completed) = Cardinality(Keyed(Achieved(u), key, Past(u)))
  BY <1>5, PastCells, WeekTotals, SumByKey
<1> QED
  BY <1>3, <1>6, <1>7 DEF total, completed

\* In every state, what the dashboard, the report, the leaderboard and the
\* calendar say of the current week of a user is the same: each of them counts
\* the occurrences from a range of its own, and filters them by its own rules.
THEOREM PagesTellTheSame == TrackerSpec => []PagesAgree
<1>1. ASSUME TablesTypeOK, NEW u \in members
      PROVE  SameNumbers(computeStats(u), buildReportData(u, {}, NoWeek).matrix,
                         RowOfUser(buildLeaderboard("week", NULL).primary, u), Past(u),
                         {o \in OccurrencesBetween(u, today + 1, WeekEnd) : IsCompleted(o)})
  <2> DEFINE stats  == computeStats(u)
             matrix == buildReportData(u, {}, NoWeek).matrix
             row    == RowOfUser(buildLeaderboard("week", NULL).primary, u)
             week   == OccurrencesBetween(u, WeekStart, WeekEnd)
             first  == OccurrencesBetween(u, WeekStart, today)
             rest   == OccurrencesBetween(u, today + 1, WeekEnd)
             ahead  == {o \in rest : IsCompleted(o)}
  <2>1. /\ today \in Int /\ WeekStart \in Int /\ WeekStart <= today /\ today <= WeekEnd
        /\ WeekEnd = WeekStart + 6 /\ WeekEnd \in Int /\ today + 1 \in Int
        /\ IsFiniteSet(Due(u)) /\ IsFiniteSet(Achieved(u))
    BY <1>1, WeekTotals
  <2>2. stats.weeklyTotal = Cardinality(Due(u)) /\ stats.weeklyDone = Cardinality(Achieved(u))
    BY DEF computeStats, StatsOf, Total, Done, Count, Exempt, Complete, Due, Achieved, WeekStart
  <2>3. /\ matrix.done = Cardinality({o \in week : IsCompleted(o)})
        /\ matrix.due = Cardinality({o \in week : occurrenceCountsTowardDue(o)})
    <3>1. NoWeek \in Asks
      BY DEF Asks
    <3>2. PICK ws \in Int : ws = ReportWeek(NoWeek) /\ ws = WeekStart
      BY <1>1, <3>1, ReportWeeks
    <3>3. matrix = OneReport(ws, <<Share(u, ws)>>).matrix
      BY <1>1, <3>1, <3>2, OwnReport
    <3> HIDE DEF matrix
    <3>4. /\ OneReport(ws, <<Share(u, ws)>>).matrix.done
               = Cardinality({o \in OccurrencesBetween(u, ws, ws + 6) : IsCompleted(o)})
          /\ OneReport(ws, <<Share(u, ws)>>).matrix.due
               = Cardinality({o \in OccurrencesBetween(u, ws, ws + 6) :
                                occurrenceCountsTowardDue(o)})
      BY <1>1, OwnMatrix
    <3> QED
      BY <2>1, <3>2, <3>3, <3>4
  <2>4. row.due = Cardinality(Due(u)) /\ row.completed = Cardinality(Achieved(u))
    <3>1. row = BoardRow("week", u)
      BY <1>1, BoardShows, PrimaryFair, RowFound DEF Fair
    <3>2. BoardPeriod("week").start = WeekStart /\ BoardPeriod("week").countUntil = today
      <4>1. "week" # "month"
        OBVIOUS
      <4> QED
        BY <1>1, <4>1, PeriodTyped
    <3> HIDE DEF row
    <3> DEFINE counted == {o \in first : /\ o.due \in WeekStart .. today /\ o.due <= today
                                         /\ o.status # "exempt"}
    <3>3. /\ BoardRow("week", u).due = Cardinality(counted)
          /\ BoardRow("week", u).completed = Cardinality({o \in counted : IsCompleted(o)})
      BY <3>2 DEF BoardRow, leaderboardRowFromOccurrences
    <3>4. counted = Due(u) /\ {o \in counted : IsCompleted(o)} = Achieved(u)
      <4>1. \A o \in Due(u) : o.due \in WeekStart .. today /\ o.due <= today
        BY <1>1, <2>1, WeekTotals
      <4>2. counted = Due(u)
        BY <4>1 DEF Due
      <4>3. {o \in Due(u) : IsCompleted(o)} = Achieved(u)
        BY DEF Due, Achieved, IsCompleted
      <4> QED
        BY <4>2, <4>3
    <3> QED
      BY <3>1, <3>3, <3>4
  <2>5. /\ {o \in week : o.due \in WeekStart .. today} = first
        /\ {o \in week : o.due \in today + 1 .. WeekEnd} = rest
        /\ \A o \in week : o.due \in WeekStart .. WeekEnd
    <3>1. \A o \in week : o.due \in WeekStart .. WeekEnd
      BY <1>1, <2>1, OccurrencesAre, OccurrenceFields
    <3>2. {o \in week : o.due \in WeekStart .. today} = first
      BY <1>1, <2>1, OccurrencesWithin
    <3>3. CASE today + 1 <= WeekEnd
      BY <1>1, <2>1, <3>1, <3>2, <3>3, OccurrencesWithin
    <3>4. CASE today = WeekEnd
      <4>1. today + 1 .. WeekEnd = {} /\ WeekEnd < today + 1
        BY <2>1, <3>4
      <4>2. rest = {}
        BY <4>1 DEF OccurrencesBetween
      <4> QED
        BY <3>1, <3>2, <4>1, <4>2
    <3> QED
      BY <2>1, <3>3, <3>4
  <2>6. IsFiniteSet(week)
    BY <1>1, <2>1, OccurrencesFinite
  <2> HIDE DEF week, first, rest
  <2>7. {o \in week : occurrenceCountsTowardDue(o)} = Due(u)
    <3>1. \A o \in week : o.due <= today <=> o.due \in WeekStart .. today
      BY <2>1, <2>5
    <3> QED
      BY <2>5, <3>1 DEF occurrenceCountsTowardDue, Due, first
  <2>8. /\ {o \in week : IsCompleted(o)} = Achieved(u) \cup ahead
        /\ Achieved(u) \cap ahead = {}
        /\ ahead \in SUBSET week
    <3>1. \A o \in week : o.due \in today + 1 .. WeekEnd <=> ~(o.due \in WeekStart .. today)
      BY <2>1, <2>5
    <3>2. Achieved(u) = {o \in first : IsCompleted(o)}
      BY DEF Achieved, IsCompleted, first
    <3> QED
      BY <2>5, <3>1, <3>2
  <2> HIDE DEF ahead
  <2>9. matrix.done - Cardinality(ahead) = Cardinality(Achieved(u))
    <3>1. IsFiniteSet(ahead)
      BY <2>6, <2>8, FS_Subset
    <3>2. Cardinality(Achieved(u)) \in Nat /\ Cardinality(ahead) \in Nat
      BY <2>1, <3>1, FS_CardinalityType
    <3>3. Cardinality(Achieved(u) \cup ahead)
            = Cardinality(Achieved(u)) + Cardinality(ahead) - Cardinality(Achieved(u) \cap ahead)
      BY <2>1, <3>1, FS_Union
    <3>4. Cardinality(Achieved(u) \cap ahead) = 0
      BY <2>8, FS_EmptySet
    <3>5. Cardinality(Achieved(u) \cup ahead) = Cardinality(Achieved(u)) + Cardinality(ahead)
      BY <3>2, <3>3, <3>4
    <3>6. matrix.done = Cardinality(Achieved(u) \cup ahead)
      BY <2>3, <2>8
    <3> HIDE DEF matrix
    <3> QED
      BY <3>2, <3>5, <3>6
  <2>10. /\ SumFunction([c \in Past(u) |-> c.tally.total]) = Cardinality(Due(u))
         /\ SumFunction([c \in Past(u) |-> c.tally.completed]) = Cardinality(Achieved(u))
    BY <1>1, PastSums
  <2> HIDE DEF stats, matrix, row
  <2> QED
    BY <2>2, <2>3, <2>4, <2>7, <2>9, <2>10 DEF SameNumbers, stats, matrix, row, ahead, rest
<1>2. TablesTypeOK => PagesAgree
  BY <1>1 DEF PagesAgree, Past
<1> QED
  BY <1>2, TrackerTablesCorrect, PTL

-----------------------------------------------------------------------------
(***************************************************************************)
(* The weeks of a month.                                                   *)
(***************************************************************************)
\* As Downwards, from all that are further up.
Inherited(f, g) == \A m \in Int : (\A j \in Int : j > m => f[j] = g[j]) => f[m] = g[m]

LEMMA AllDownwards ==
  ASSUME NEW f, NEW g, NEW n \in Int,
         \A m \in Int : m >= n => f[m] = g[m], Inherited(f, g)
  PROVE  \A m \in Int : f[m] = g[m]
<1> DEFINE S == {k \in Nat : f[n - k] # g[n - k]}
<1>1. ASSUME S # {} PROVE FALSE
  <2>1. S \subseteq Nat
    OBVIOUS
  <2>2. PICK k \in S : \A j \in S : k <= j
    BY <1>1, <2>1, LeastNat
  <2>3. k \in Nat /\ n - k \in Int /\ f[n - k] # g[n - k]
    BY <2>2
  <2>4. ASSUME NEW j \in Int, j > n - k PROVE f[j] = g[j]
    <3>1. CASE j >= n
      BY <3>1
    <3>2. CASE j < n
      <4>1. n - j \in Nat /\ n - (n - j) = j /\ n - j < k
        BY <2>3, <2>4, <3>2
      <4>2. n - j \notin S
        BY <2>2, <2>3, <4>1
      <4> QED
        BY <4>1, <4>2
    <3> QED
      BY <3>1, <3>2
  <2> QED
    BY <2>3, <2>4 DEF Inherited
<1>2. ASSUME NEW m \in Int PROVE f[m] = g[m]
  <2>1. CASE m < n
    <3>1. n - m \in Nat /\ n - (n - m) = m
      BY <2>1
    <3> QED
      BY <1>1, <3>1
  <2> QED
    BY <2>1
<1> QED
  BY <1>2

\* The weeks from a day on: the first may start late, the last may end early.
WeeksFrom(d, end, startDay) ==
  IF d > end THEN 0
  ELSE (WeekStartFor(end, startDay) - WeekStartFor(d, startDay)) \div 7 + 1

Weeks(d, end, startDay) ==
  [n \in 1 .. WeeksFrom(d, end, startDay) |->
     [start |-> Later(d, WeekStartFor(d, startDay) + 7 * (n - 1)),
      end   |-> Earlier(WeekStartFor(d, startDay) + 7 * (n - 1) + 6, end)]]

\* Weeks are a multiple of seven days apart.
LEMMA WeeksApart ==
  ASSUME NEW d \in Int, NEW end \in Int, NEW startDay \in Weekdays, d <= end
  PROVE  /\ WeekStartFor(d, startDay) \in Int /\ WeekStartFor(end, startDay) \in Int
         /\ WeeksFrom(d, end, startDay) \in Nat /\ WeeksFrom(d, end, startDay) >= 1
         /\ WeekStartFor(end, startDay)
              = WeekStartFor(d, startDay) + 7 * (WeeksFrom(d, end, startDay) - 1)
         /\ Weekday(WeekStartFor(d, startDay)) = startDay
         /\ d - 6 <= WeekStartFor(d, startDay) /\ WeekStartFor(d, startDay) <= d
         /\ end - 6 <= WeekStartFor(end, startDay) /\ WeekStartFor(end, startDay) <= end
<1>1. PICK a \in Int, b \in Int :
        /\ a = WeekStartFor(d, startDay) /\ b = WeekStartFor(end, startDay)
        /\ d - 6 <= a /\ a <= d /\ Weekday(a) = startDay
        /\ end - 6 <= b /\ b <= end /\ Weekday(b) = startDay
  BY WeekStarts
<1>2. b - a > -7 /\ (b - a) % 7 = 0
  BY <1>1 DEF Weekday, Weekdays
<1>3. PICK q \in Int : q = (b - a) \div 7 /\ b - a = 7 * q
  BY <1>2
<1>4. WeeksFrom(d, end, startDay) = q + 1
  BY <1>1, <1>3 DEF WeeksFrom
<1>5. q >= 0
  BY <1>2, <1>3
<1>6. /\ WeeksFrom(d, end, startDay) \in Nat /\ WeeksFrom(d, end, startDay) >= 1
      /\ b = a + 7 * (WeeksFrom(d, end, startDay) - 1)
  <2>1. q + 1 \in Nat /\ q + 1 >= 1 /\ b = a + 7 * (q + 1 - 1)
    BY <1>3, <1>5
  <2> QED
    BY <1>4, <2>1
<1> QED
  BY <1>1, <1>6

LEMMA NextWeek ==
  ASSUME NEW d \in Int, NEW end \in Int, NEW startDay \in Weekdays, d <= end,
         NEW last, last = Earlier(WeekEndFor(d, startDay), end)
  PROVE  /\ last \in Int /\ d <= last /\ last <= end
         /\ Weeks(d, end, startDay) = <<[start |-> d, end |-> last]>> \o Weeks(last + 1, end, startDay)
<1>1. PICK a \in Int, n \in Nat :
        /\ a = WeekStartFor(d, startDay) /\ n = WeeksFrom(d, end, startDay) /\ n >= 1
        /\ WeekStartFor(end, startDay) \in Int /\ WeekStartFor(end, startDay) = a + 7 * (n - 1)
        /\ Weekday(a) = startDay /\ d - 6 <= a /\ a <= d
        /\ end - 6 <= WeekStartFor(end, startDay) /\ WeekStartFor(end, startDay) <= end
  BY WeeksApart
<1>2. last = Earlier(a + 6, end) /\ last \in Int /\ d <= last /\ last <= end
  BY <1>1 DEF WeekEndFor, Earlier
<1> DEFINE first == <<[start |-> d, end |-> last]>>
           rest  == Weeks(last + 1, end, startDay)
           all   == Weeks(d, end, startDay)
<1>3. all = [k \in 1 .. n |-> [start |-> Later(d, a + 7 * (k - 1)),
                               end   |-> Earlier(a + 7 * (k - 1) + 6, end)]]
  BY <1>1 DEF Weeks
<1>4. WeeksFrom(last + 1, end, startDay) = n - 1
  <2>1. CASE last = end
    <3>1. n = 1
      <4>1. PICK b \in Int : b = WeekStartFor(end, startDay) /\ b = a + 7 * (n - 1) /\ b <= end
        BY <1>1
      <4>2. end <= a + 6
        BY <1>1, <1>2, <2>1 DEF Earlier
      <4>3. a + 7 * (n - 1) <= a + 6 /\ n >= 1
        BY <1>1, <4>1, <4>2
      <4> QED
        BY <4>3
    <3> QED
      BY <1>2, <2>1, <3>1 DEF WeeksFrom
  <2>2. CASE last # end
    <3>1. last = a + 6 /\ last + 1 = a + 7 /\ last + 1 <= end /\ last + 1 \in Int
      BY <1>1, <1>2, <2>2 DEF Earlier
    <3>2. Weekday(last + 1) = startDay
      BY <1>1, <3>1 DEF Weekday
    <3>3. WeekStartFor(last + 1, startDay) = last + 1
      BY <3>1, <3>2, WeekStartIs
    <3>4. WeekStartFor(end, startDay) - WeekStartFor(last + 1, startDay) = 7 * (n - 2)
      BY <1>1, <3>1, <3>3
    <3>5. WeeksFrom(last + 1, end, startDay) = (7 * (n - 2)) \div 7 + 1
      BY <1>2, <3>1, <3>4 DEF WeeksFrom
    <3> QED
      BY <3>5
  <2> QED
    BY <2>1, <2>2
<1>5. rest = [k \in 1 .. n - 1 |-> rest[k]]
  BY <1>4 DEF Weeks
<1>6. ASSUME NEW k \in 1 .. n - 1
      PROVE  rest[k] = [start |-> Later(d, a + 7 * k), end |-> Earlier(a + 7 * k + 6, end)]
  <2>1. last # end
    BY <1>1, <1>2, <1>6 DEF Earlier
  <2>2. last = a + 6 /\ last + 1 = a + 7 /\ last + 1 <= end /\ last + 1 \in Int
    BY <1>1, <1>2, <2>1 DEF Earlier
  <2>3. Weekday(last + 1) = startDay
    BY <1>1, <2>2 DEF Weekday
  <2>4. WeekStartFor(last + 1, startDay) = a + 7
    BY <2>2, <2>3, WeekStartIs
  <2>5. rest[k] = [start |-> Later(last + 1, a + 7 + 7 * (k - 1)),
                   end   |-> Earlier(a + 7 + 7 * (k - 1) + 6, end)]
    BY <1>4, <2>4 DEF Weeks
  <2>6. /\ a + 7 + 7 * (k - 1) = a + 7 * k
        /\ Later(last + 1, a + 7 * k) = a + 7 * k /\ Later(d, a + 7 * k) = a + 7 * k
    BY <1>1, <2>2 DEF Later
  <2> QED
    BY <2>5, <2>6
<1>7. first = [k \in 1 .. 1 |-> first[k]] /\ first[1] = [start |-> d, end |-> last]
  OBVIOUS
<1> HIDE DEF first, rest, all
<1>8. first \o rest = [k \in 1 .. 1 + (n - 1) |-> IF k <= 1 THEN first[k] ELSE rest[k - 1]]
  <2>1. PICK one \in Nat, m \in Nat : one = 1 /\ m = n - 1
    <3>1. n - 1 \in Nat /\ 1 \in Nat
      BY <1>1
    <3> QED
      BY <3>1
  <2> QED
    BY <1>5, <1>7, <2>1, Joined
<1>9. ASSUME NEW k \in 1 .. n
      PROVE  all[k] = IF k <= 1 THEN first[k] ELSE rest[k - 1]
  <2>1. CASE k = 1
    <3>1. Later(d, a + 7 * (k - 1)) = d /\ Earlier(a + 7 * (k - 1) + 6, end) = last
      BY <1>1, <1>2, <2>1 DEF Later
    <3> QED
      BY <1>3, <1>7, <2>1, <3>1
  <2>2. CASE k # 1
    <3>1. k - 1 \in 1 .. n - 1 /\ ~(k <= 1)
      BY <2>2
    <3> QED
      BY <1>3, <1>6, <3>1
  <2> QED
    BY <2>1, <2>2
<1>10. all = [k \in 1 .. n |-> all[k]] /\ 1 + (n - 1) = n
  BY <1>3
<1>11. all = first \o rest
  BY <1>8, <1>9, <1>10
<1> QED
  BY <1>2, <1>11 DEF all, first, rest

LEMMA WeekRangesAre ==
  ASSUME NEW begin \in Int, NEW end \in Int, NEW startDay \in Weekdays
  PROVE  reportWeekRanges(begin, end, startDay) = Weeks(begin, end, startDay)
<1> DEFINE last(d) == Earlier(WeekEndFor(d, startDay), end)
           join(d, s) == <<[start |-> d, end |-> last(d)]>> \o s
           Step(f) == [d \in Int |-> IF d > end THEN <<>> ELSE join(d, f[last(d) + 1])]
           from == CHOOSE f : f = Step(f)
           sol == [d \in Int |-> Weeks(d, end, startDay)]
<1>1. reportWeekRanges(begin, end, startDay) = from[begin]
  BY DEF reportWeekRanges
<1>2. \A d \in Int : d > end => Weeks(d, end, startDay) = <<>>
  BY DEF Weeks, WeeksFrom
<1>3. ASSUME NEW d \in Int, d <= end
      PROVE  /\ last(d) + 1 \in Int /\ last(d) + 1 > d
             /\ Weeks(d, end, startDay) = join(d, Weeks(last(d) + 1, end, startDay))
  <2>1. /\ last(d) \in Int /\ d <= last(d)
        /\ Weeks(d, end, startDay) = join(d, Weeks(last(d) + 1, end, startDay))
    BY <1>3, NextWeek
  <2> HIDE DEF last, join
  <2> QED
    BY <2>1
<1> HIDE DEF last, join
<1>4. \A d \in Int : sol[d] = Weeks(d, end, startDay)
  OBVIOUS
<1>5. sol = [d \in Int |-> sol[d]]
  OBVIOUS
<1> HIDE DEF sol
<1>6. sol = Step(sol)
  <2>1. ASSUME NEW d \in Int
        PROVE  sol[d] = IF d > end THEN <<>> ELSE join(d, sol[last(d) + 1])
    <3>1. CASE d > end
      BY <1>2, <1>4, <3>1
    <3>2. CASE ~(d > end)
      <4>1. d <= end
        BY <3>2
      <4> QED
        BY <1>3, <1>4, <3>2, <4>1
    <3> QED
      BY <3>1, <3>2
  <2> QED
    BY <1>5, <2>1
<1>7. from = Step(from)
  <2> HIDE DEF Step
  <2> QED
    BY <1>6
<1> HIDE DEF from
<1>8. \A d \in Int : /\ from[d] = IF d > end THEN <<>> ELSE join(d, from[last(d) + 1])
                     /\ sol[d]  = IF d > end THEN <<>> ELSE join(d, sol[last(d) + 1])
  BY <1>6, <1>7
<1> HIDE DEF Step
<1>9. \A d \in Int : from[d] = sol[d]
  <2>1. PICK n \in Int : n = end + 1
    OBVIOUS
  <2>2. ASSUME NEW d \in Int, d >= n PROVE from[d] = sol[d]
    <3>1. d > end
      BY <2>1, <2>2
    <3> QED
      BY <1>8, <3>1
  <2>3. ASSUME NEW d \in Int, \A j \in Int : j > d => from[j] = sol[j] PROVE from[d] = sol[d]
    <3>1. CASE d > end
      BY <1>8, <3>1
    <3>2. CASE d <= end
      <4>1. from[last(d) + 1] = sol[last(d) + 1]
        BY <1>3, <2>3, <3>2
      <4> QED
        BY <1>8, <3>2, <4>1
    <3> QED
      BY <3>1, <3>2
  <2>4. Inherited(from, sol)
    BY <2>3 DEF Inherited
  <2> QED
    BY <2>2, <2>4, AllDownwards
<1> QED
  BY <1>1, <1>4, <1>9

\* The weeks split the days from the first to the last.
Splits(weeks, N, begin, end, startDay) ==
  /\ DOMAIN weeks = 1 .. N
  /\ \A n \in 1 .. N : /\ weeks[n].start \in Int /\ weeks[n].end \in Int
                       /\ begin <= weeks[n].start /\ weeks[n].end <= end
                       /\ weeks[n].end - weeks[n].start \in 0 .. 6
                       /\ n > 1 => Weekday(weeks[n].start) = startDay
  /\ \A d \in begin .. end : \E n \in 1 .. N : d \in weeks[n].start .. weeks[n].end
  /\ \A m, n \in 1 .. N, d \in Int :
       d \in weeks[m].start .. weeks[m].end /\ d \in weeks[n].start .. weeks[n].end => m = n

LEMMA WeeksSplit ==
  ASSUME NEW begin \in Int, NEW end \in Int, NEW startDay \in Weekdays, begin <= end
  PROVE  /\ WeeksFrom(begin, end, startDay) \in Nat
         /\ Splits(reportWeekRanges(begin, end, startDay), WeeksFrom(begin, end, startDay),
                   begin, end, startDay)
<1>1. PICK a \in Int, N \in Nat :
        /\ a = WeekStartFor(begin, startDay) /\ N = WeeksFrom(begin, end, startDay) /\ N >= 1
        /\ WeekStartFor(end, startDay) \in Int /\ WeekStartFor(end, startDay) = a + 7 * (N - 1)
        /\ Weekday(a) = startDay /\ begin - 6 <= a /\ a <= begin
        /\ end - 6 <= WeekStartFor(end, startDay) /\ WeekStartFor(end, startDay) <= end
  BY WeeksApart
<1>2. a + 7 * (N - 1) <= end /\ end <= a + 7 * (N - 1) + 6
  BY <1>1
<1>3. begin - 6 <= a /\ a <= begin /\ N >= 1
  BY <1>1
<1> DEFINE weeks == [n \in 1 .. N |-> [start |-> Later(begin, a + 7 * (n - 1)),
                                       end   |-> Earlier(a + 7 * (n - 1) + 6, end)]]
<1>4. reportWeekRanges(begin, end, startDay) = weeks
  BY <1>1, WeekRangesAre DEF Weeks
<1>5. ASSUME NEW n \in 1 .. N
      PROVE  /\ weeks[n].start = IF n = 1 THEN begin ELSE a + 7 * (n - 1)
             /\ weeks[n].end = IF n = N THEN end ELSE a + 7 * (n - 1) + 6
  <2>1. weeks[n].start = Later(begin, a + 7 * (n - 1))
        /\ weeks[n].end = Earlier(a + 7 * (n - 1) + 6, end)
    OBVIOUS
  <2> HIDE DEF weeks
  <2>2. n # 1 => a + 7 * (n - 1) > begin
    BY <1>3
  <2>3. n # N => a + 7 * (n - 1) + 6 < end
    BY <1>2
  <2> QED
    BY <1>2, <1>3, <2>1, <2>2, <2>3 DEF Later, Earlier
<1>6. DOMAIN weeks = 1 .. N
  OBVIOUS
<1> HIDE DEF weeks
<1>7. ASSUME NEW n \in 1 .. N
      PROVE  /\ weeks[n].start \in Int /\ weeks[n].end \in Int
             /\ begin <= weeks[n].start /\ weeks[n].end <= end
             /\ weeks[n].end - weeks[n].start \in 0 .. 6
             /\ n > 1 => Weekday(weeks[n].start) = startDay
  <2>1. n > 1 => Weekday(a + 7 * (n - 1)) = startDay
    <3>1. (a + 7 * (n - 1) + 4) % 7 = (a + 4) % 7
      OBVIOUS
    <3> QED
      BY <1>1, <3>1 DEF Weekday
  <2>2. n # 1 => a + 7 * (n - 1) >= begin
    BY <1>3
  <2>3. n # N => a + 7 * (n - 1) + 6 <= end
    BY <1>2
  <2>4. n # 1 => a + 7 * (n - 1) <= end
    BY <1>2
  <2>5. n # N => begin <= a + 7 * (n - 1) + 6
    BY <1>3
  <2>6. n = N => end - (a + 7 * (n - 1)) <= 6
    BY <1>2
  <2> QED
    BY <1>3, <1>5, <2>1, <2>2, <2>3, <2>4, <2>5, <2>6
<1>8. ASSUME NEW d \in begin .. end PROVE \E n \in 1 .. N : d \in weeks[n].start .. weeks[n].end
  <2>1. PICK n \in Int : n = (d - a) \div 7 + 1 /\ a + 7 * (n - 1) <= d /\ d <= a + 7 * (n - 1) + 6
    <3>1. PICK q \in Int : q = (d - a) \div 7 /\ 7 * q <= d - a /\ d - a <= 7 * q + 6
      OBVIOUS
    <3>2. q + 1 \in Int /\ (q + 1) - 1 = q
      OBVIOUS
    <3>3. a + 7 * ((q + 1) - 1) <= d /\ d <= a + 7 * ((q + 1) - 1) + 6
      BY <3>1, <3>2
    <3> QED
      BY <3>1, <3>2, <3>3
  <2>2. n \in 1 .. N
    BY <1>2, <1>3, <2>1
  <2> QED
    BY <1>5, <2>1, <2>2
<1>9. ASSUME NEW m \in 1 .. N, NEW n \in 1 .. N, NEW d \in Int,
             d \in weeks[m].start .. weeks[m].end, d \in weeks[n].start .. weeks[n].end
      PROVE  m = n
  <2>1. a + 7 * (m - 1) <= d /\ d <= a + 7 * (m - 1) + 6
    BY <1>2, <1>3, <1>5, <1>9
  <2>2. a + 7 * (n - 1) <= d /\ d <= a + 7 * (n - 1) + 6
    BY <1>2, <1>3, <1>5, <1>9
  <2> QED
    BY <2>1, <2>2
<1> QED
  BY <1>1, <1>4, <1>6, <1>7, <1>8, <1>9 DEF Splits

-----------------------------------------------------------------------------
(***************************************************************************)
(* A row of bars for each user.                                            *)
(***************************************************************************)
RowAt(j, W) == (j - 1) \div W + 1
ColumnAt(j, W) == ((j - 1) % W) + 1

LEMMA More ==
  ASSUME NEW W \in Nat, NEW a \in Int, NEW b \in Int, a + 1 <= b
  PROVE  W * a + W <= W * b
OBVIOUS

LEMMA Place ==
  ASSUME NEW W \in Nat, W # 0, NEW j \in Int
  PROVE  /\ RowAt(j, W) \in Int /\ ColumnAt(j, W) \in 1 .. W
         /\ j = W * (RowAt(j, W) - 1) + ColumnAt(j, W)
BY DEF RowAt, ColumnAt

IsAt(j, W, p, n) == j = W * p + n

LEMMA PlaceIs ==
  ASSUME NEW W \in Nat, W # 0, NEW j \in Int, NEW p \in Int, NEW n \in 1 .. W, IsAt(j, W, p, n)
  PROVE  RowAt(j, W) = p + 1 /\ ColumnAt(j, W) = n
<1>1. PICK q \in Int, r \in 1 .. W : RowAt(j, W) = q + 1 /\ r = ColumnAt(j, W) /\ j = W * q + r
  <2>1. /\ RowAt(j, W) \in Int /\ ColumnAt(j, W) \in 1 .. W
        /\ j = W * (RowAt(j, W) - 1) + ColumnAt(j, W)
    BY Place
  <2>2. PICK row \in Int, column \in 1 .. W :
          row = RowAt(j, W) /\ column = ColumnAt(j, W) /\ j = W * (row - 1) + column
    BY <2>1
  <2>3. PICK q \in Int : q = row - 1
    OBVIOUS
  <2>4. row = q + 1
    BY <2>3
  <2> QED
    BY <2>2, <2>3, <2>4
<1>2. W * p + n = W * q + r
  BY <1>1 DEF IsAt
<1>3. ~(q + 1 <= p)
  <2> SUFFICES ASSUME q + 1 <= p PROVE FALSE
    OBVIOUS
  <2>1. W * q + W <= W * p
    BY More
  <2> QED
    BY <1>2, <2>1
<1>4. ~(p + 1 <= q)
  <2> SUFFICES ASSUME p + 1 <= q PROVE FALSE
    OBVIOUS
  <2>1. W * p + W <= W * q
    BY More
  <2> QED
    BY <1>2, <2>1
<1>5. p = q
  BY <1>3, <1>4
<1>6. n = r
  BY <1>2, <1>5
<1> QED
  BY <1>1, <1>5, <1>6

\* K rows of W bars each, one after the other.
InRows(seqs, K, W) ==
  /\ seqs = [k \in 1 .. K |-> seqs[k]]
  /\ \A k \in 1 .. K : seqs[k] = [n \in 1 .. W |-> seqs[k][n]]

Flat(seqs, K, W) == [j \in 1 .. W * K |-> seqs[RowAt(j, W)][ColumnAt(j, W)]]

LEMMA FlatStep ==
  ASSUME NEW K \in Nat, NEW W \in Nat, NEW seqs, InRows(seqs, K, W), NEW i \in 1 .. K
  PROVE  Flat(seqs, i, W) = IF i = 1 THEN seqs[i] ELSE Flat(seqs, i - 1, W) \o seqs[i]
<1>1. seqs[i] = [n \in 1 .. W |-> seqs[i][n]]
  BY DEF InRows
<1>2. PICK p \in Nat : p = i - 1
  OBVIOUS
<1>3. PICK m \in Nat : m = W * p
  <2>1. W * p \in Nat
    OBVIOUS
  <2> QED
    BY <2>1
<1>4. W * i = m + W
  BY <1>2, <1>3
<1>5. ASSUME NEW j \in m + 1 .. m + W PROVE RowAt(j, W) = i /\ ColumnAt(j, W) = j - m
  <2>1. PICK n \in 1 .. W : n = j - m /\ j = m + n
    <3>1. j - m \in 1 .. W /\ j = m + (j - m)
      OBVIOUS
    <3> QED
      BY <3>1
  <2>2. W # 0 /\ j \in Int /\ p \in Int
    BY <2>1
  <2>3. IsAt(j, W, p, n)
    BY <1>3, <2>1 DEF IsAt
  <2>4. RowAt(j, W) = p + 1 /\ ColumnAt(j, W) = n
    BY <2>2, <2>3, PlaceIs
  <2> QED
    BY <1>2, <2>1, <2>4
<1> DEFINE at(j) == seqs[RowAt(j, W)][ColumnAt(j, W)]
<1>6. \A j \in m + 1 .. m + W : at(j) = seqs[i][j - m]
  BY <1>5
<1> HIDE DEF at
<1>7. Flat(seqs, i, W) = [j \in 1 .. m + W |-> at(j)]
  BY <1>4 DEF Flat, at
<1>8. CASE i = 1
  <2>1. m = 0
    BY <1>2, <1>3, <1>8
  <2>2. \A j \in 1 .. W : at(j) = seqs[i][j]
    BY <1>6, <2>1
  <2>3. m + W = W
    BY <2>1
  <2> QED
    BY <1>1, <1>7, <1>8, <2>2, <2>3
<1>9. CASE i # 1
  <2> DEFINE s == Flat(seqs, i - 1, W)
             t == seqs[i]
  <2>1. s = [j \in 1 .. m |-> at(j)]
    BY <1>2, <1>3 DEF Flat, at
  <2>2. s = [j \in 1 .. m |-> s[j]] /\ t = [n \in 1 .. W |-> t[n]]
    BY <1>1, <2>1
  <2>3. \A j \in 1 .. m : s[j] = at(j)
    BY <2>1
  <2> HIDE DEF s, t
  <2>4. s \o t = [j \in 1 .. m + W |-> IF j <= m THEN s[j] ELSE t[j - m]]
    BY <2>2, Joined
  <2>5. \A j \in 1 .. m + W : at(j) = IF j <= m THEN s[j] ELSE t[j - m]
    BY <1>6, <2>3 DEF t
  <2>6. Flat(seqs, i, W) = s \o t
    BY <1>7, <2>4, <2>5
  <2> QED
    BY <1>9, <2>6 DEF s, t
<1> QED
  BY <1>8, <1>9

LEMMA FlatIs ==
  ASSUME NEW K \in Nat, NEW W \in Nat, NEW seqs, InRows(seqs, K, W)
  PROVE  FlattenSeq(seqs) = Flat(seqs, K, W)
<1>1. Len(seqs) = K /\ DOMAIN seqs = 1 .. K
  BY DEF InRows
<1>2. CASE K = 0
  <2>1. FlattenSeq(seqs) = seqs /\ seqs = <<>>
    BY <1>1, <1>2 DEF FlattenSeq, InRows
  <2>2. W * K = 0
    BY <1>2
  <2>3. Flat(seqs, K, W) = <<>>
    BY <2>2 DEF Flat
  <2> QED
    BY <2>1, <2>3
<1>3. CASE K # 0
  <2> DEFINE add(s, i) == s \o seqs[i]
             Step(f) == [i \in 1 .. K |-> IF i = 1 THEN seqs[i] ELSE add(f[i - 1], i)]
             flatten == CHOOSE f : f = Step(f)
             sol == [i \in 1 .. K |-> Flat(seqs, i, W)]
  <2>1. FlattenSeq(seqs) = flatten[K]
    BY <1>1, <1>3 DEF FlattenSeq
  <2>2. \A i \in 1 .. K : Flat(seqs, i, W) = IF i = 1 THEN seqs[i] ELSE add(Flat(seqs, i - 1, W), i)
    BY FlatStep
  <2> HIDE DEF add
  <2>3. \A i \in 1 .. K : sol[i] = Flat(seqs, i, W)
    OBVIOUS
  <2>4. sol = [i \in 1 .. K |-> sol[i]]
    OBVIOUS
  <2> HIDE DEF sol
  <2>5. sol = Step(sol)
    <3>1. ASSUME NEW i \in 1 .. K
          PROVE  sol[i] = IF i = 1 THEN seqs[i] ELSE add(sol[i - 1], i)
      <4>1. i # 1 => i - 1 \in 1 .. K
        OBVIOUS
      <4> QED
        BY <2>2, <2>3, <4>1
    <3> QED
      BY <2>4, <3>1
  <2>6. flatten = Step(flatten)
    <3> HIDE DEF Step
    <3> QED
      BY <2>5
  <2> HIDE DEF flatten
  <2>7. \A i \in 1 .. K : /\ flatten[i] = IF i = 1 THEN seqs[i] ELSE add(flatten[i - 1], i)
                          /\ sol[i] = IF i = 1 THEN seqs[i] ELSE add(sol[i - 1], i)
    BY <2>5, <2>6
  <2> HIDE DEF Step
  <2> DEFINE S == {i \in 1 .. K : flatten[i] # sol[i]}
  <2>8. ASSUME S # {} PROVE FALSE
    <3>1. S \subseteq Nat
      OBVIOUS
    <3>2. PICK i \in S : \A m \in S : i <= m
      BY <2>8, <3>1, LeastNat
    <3>3. i \in 1 .. K /\ flatten[i] # sol[i]
      OBVIOUS
    <3>4. i # 1 => i - 1 \in 1 .. K /\ i - 1 \notin S
      BY <3>2, <3>3
    <3>5. i # 1 => flatten[i - 1] = sol[i - 1]
      BY <3>4
    <3> QED
      BY <2>7, <3>3, <3>5
  <2>9. K \in 1 .. K
    BY <1>3
  <2> QED
    BY <2>1, <2>3, <2>8, <2>9
<1> QED
  BY <1>2, <1>3

\* The bar of a user for a week.
DueIn(set, week) == {o \in set.occs : /\ o.due \in week.start .. week.end
                                      /\ occurrenceCountsTowardDue(o)}

BarOf(set, weeks, n) ==
  LET done == Cardinality({o \in DueIn(set, weeks[n]) : IsCompleted(o)})
  IN  [week      |-> n,
       label     |-> reportChartRangeLabel(weeks[n]),
       name      |-> Name[set.user],
       completed |-> done,
       total     |-> Cardinality(DueIn(set, weeks[n])),
       percent   |-> percent(done, Cardinality(DueIn(set, weeks[n])))]

BarRows(sets, K, weeks, W) == [k \in 1 .. K |-> [n \in 1 .. W |-> BarOf(sets[k], weeks, n)]]

LEMMA BarsAre ==
  ASSUME NEW K \in Nat, NEW sets, DOMAIN sets = 1 .. K, NEW W \in Nat,
         NEW begin, NEW end, NEW startDay,
         DOMAIN reportWeekRanges(begin, end, startDay) = 1 .. W
  PROVE  /\ buildWeeklyReportBars(begin, end, startDay, sets)
              = Flat(BarRows(sets, K, reportWeekRanges(begin, end, startDay), W), K, W)
         /\ InRows(BarRows(sets, K, reportWeekRanges(begin, end, startDay), W), K, W)
<1> DEFINE weeks == reportWeekRanges(begin, end, startDay)
           row(k) == [n \in 1 .. W |-> BarOf(sets[k], weeks, n)]
<1>1. buildWeeklyReportBars(begin, end, startDay, sets)
        = FlattenSeq([k \in DOMAIN sets |->
                        Listed([n \in DOMAIN weeks |-> BarOf(sets[k], weeks, n)])])
  BY DEF buildWeeklyReportBars, BarOf, DueIn
<1>2. \A k : Listed(row(k)) = row(k)
  <2> SUFFICES ASSUME NEW k PROVE Listed(row(k)) = row(k)
    OBVIOUS
  <2>1. row(k) = [n \in 1 .. W |-> row(k)[n]]
    OBVIOUS
  <2> HIDE DEF row
  <2> QED
    BY <2>1, ListedIs
<1>3. [k \in DOMAIN sets |-> Listed([n \in DOMAIN weeks |-> BarOf(sets[k], weeks, n)])]
        = [k \in 1 .. K |-> row(k)]
  <2>1. DOMAIN weeks = 1 .. W
    OBVIOUS
  <2> HIDE DEF weeks
  <2>2. [k \in DOMAIN sets |-> Listed([n \in DOMAIN weeks |-> BarOf(sets[k], weeks, n)])]
          = [k \in 1 .. K |-> Listed(row(k))]
    BY <2>1
  <2> HIDE DEF row
  <2> QED
    BY <1>2, <2>2
<1>4. BarRows(sets, K, weeks, W) = [k \in 1 .. K |-> row(k)]
  BY DEF BarRows
<1>5. InRows(BarRows(sets, K, weeks, W), K, W)
  <2> HIDE DEF weeks
  <2> QED
    BY DEF InRows, BarRows
<1> HIDE DEF row, weeks
<1>6. FlattenSeq(BarRows(sets, K, weeks, W)) = Flat(BarRows(sets, K, weeks, W), K, W)
  BY <1>5, FlatIs
<1> QED
  BY <1>1, <1>3, <1>4, <1>5, <1>6 DEF weeks

\* The weeks of the bars that are shown with the week ws.
BarWeeks(ws) == reportWeekRanges(MonthStart(ws), MonthEnd(ws), AppSettings.weekStart)
BarCount(ws) == WeeksFrom(MonthStart(ws), MonthEnd(ws), AppSettings.weekStart)

LEMMA BarWeeksSplit ==
  ASSUME TablesTypeOK, NEW ws \in Int
  PROVE  /\ BarCount(ws) \in Nat
         /\ Splits(BarWeeks(ws), BarCount(ws), MonthStart(ws), MonthEnd(ws), AppSettings.weekStart)
         /\ DOMAIN BarWeeks(ws) = 1 .. BarCount(ws)
<1>1. PICK begin \in Int, end \in Int, startDay \in Weekdays :
        /\ begin = MonthStart(ws) /\ end = MonthEnd(ws) /\ startDay = AppSettings.weekStart
        /\ begin <= end
  <2>1. MonthStart(ws) \in Int /\ MonthEnd(ws) \in Int
        /\ MonthStart(ws) <= ws /\ ws <= MonthEnd(ws)
    BY MonthAround
  <2> QED
    BY <2>1, SettingsLegal
<1>2. /\ WeeksFrom(begin, end, startDay) \in Nat
      /\ Splits(reportWeekRanges(begin, end, startDay), WeeksFrom(begin, end, startDay),
                begin, end, startDay)
  BY <1>1, WeeksSplit
<1> QED
  BY <1>1, <1>2 DEF BarWeeks, BarCount, Splits

\* The bars of several users: for each of them, one for each week.
LEMMA BarsOver ==
  ASSUME TablesTypeOK, NEW ws \in Int, NEW K \in Nat, NEW sets, DOMAIN sets = 1 .. K
  PROVE  /\ OneReport(ws, sets).bars
              = Flat(BarRows(sets, K, BarWeeks(ws), BarCount(ws)), K, BarCount(ws))
         /\ InRows(BarRows(sets, K, BarWeeks(ws), BarCount(ws)), K, BarCount(ws))
<1> DEFINE weeks == BarWeeks(ws)
           begin == MonthStart(ws)
           end == MonthEnd(ws)
           startDay == AppSettings.weekStart
<1>1. PICK W \in Nat : W = BarCount(ws) /\ DOMAIN weeks = 1 .. W
  BY BarWeeksSplit
<1>2. OneReport(ws, sets).bars = buildWeeklyReportBars(begin, end, startDay, sets)
  BY DEF OneReport, Report
<1>3. weeks = reportWeekRanges(begin, end, startDay)
  BY DEF BarWeeks
<1> HIDE DEF weeks, begin, end, startDay
<1>4. DOMAIN reportWeekRanges(begin, end, startDay) = 1 .. W
  BY <1>1, <1>3
<1>5. /\ buildWeeklyReportBars(begin, end, startDay, sets)
           = Flat(BarRows(sets, K, reportWeekRanges(begin, end, startDay), W), K, W)
      /\ InRows(BarRows(sets, K, reportWeekRanges(begin, end, startDay), W), K, W)
  BY <1>4, BarsAre
<1> QED
  BY <1>1, <1>2, <1>3, <1>5 DEF weeks

LEMMA OwnBars ==
  ASSUME TablesTypeOK, NEW u, NEW ws \in Int
  PROVE  OneReport(ws, <<Share(u, ws)>>).bars
           = [n \in 1 .. BarCount(ws) |-> BarOf(Share(u, ws), BarWeeks(ws), n)]
<1> DEFINE sets == <<Share(u, ws)>>
<1>1. PICK W \in Nat, K \in Nat : W = BarCount(ws) /\ K = 1
  BY BarWeeksSplit
<1>2. DOMAIN sets = 1 .. K /\ sets[1] = Share(u, ws)
  BY <1>1
<1> HIDE DEF sets
<1> DEFINE rows == BarRows(sets, K, BarWeeks(ws), W)
<1>3. OneReport(ws, sets).bars = Flat(rows, K, W) /\ InRows(rows, K, W)
  BY <1>1, <1>2, BarsOver
<1>4. rows[1] = [n \in 1 .. W |-> BarOf(Share(u, ws), BarWeeks(ws), n)]
  BY <1>1, <1>2 DEF BarRows
<1> HIDE DEF rows
<1>5. Flat(rows, K, W) = rows[1]
  <2>1. PICK i \in 1 .. K : i = 1 /\ i = K
    BY <1>1
  <2>2. Flat(rows, i, W) = IF i = 1 THEN rows[i] ELSE Flat(rows, i - 1, W) \o rows[i]
    BY <1>3, FlatStep
  <2> QED
    BY <2>1, <2>2
<1> QED
  BY <1>1, <1>3, <1>4, <1>5 DEF sets

\* What counts in a month, and the week of the month into which it falls.
MonthDue(u, ws) == {o \in OccurrencesBetween(u, MonthStart(ws), MonthEnd(ws)) :
                      occurrenceCountsTowardDue(o)}

WeekOf(ws, d) == CHOOSE n \in 1 .. BarCount(ws) : d \in BarWeeks(ws)[n].start .. BarWeeks(ws)[n].end

LEMMA DueInWeek ==
  ASSUME TablesTypeOK, NEW u, NEW ws \in Int
  PROVE  /\ IsFiniteSet(MonthDue(u, ws))
         /\ \A o \in MonthDue(u, ws) : WeekOf(ws, o.due) \in 1 .. BarCount(ws)
         /\ \A n \in 1 .. BarCount(ws) :
              DueIn(Share(u, ws), BarWeeks(ws)[n]) = {o \in MonthDue(u, ws) : WeekOf(ws, o.due) = n}
<1> DEFINE weeks == BarWeeks(ws)
           W == BarCount(ws)
           month == OccurrencesBetween(u, MonthStart(ws), MonthEnd(ws))
           all   == OccurrencesBetween(u, MonthStart(ws), LastOf(ws))
<1>1. /\ MonthStart(ws) \in Int /\ MonthEnd(ws) \in Int /\ LastOf(ws) \in Int
      /\ MonthEnd(ws) <= LastOf(ws) /\ MonthStart(ws) <= MonthEnd(ws)
  BY MonthAround
<1>2. W \in Nat /\ Splits(weeks, W, MonthStart(ws), MonthEnd(ws), AppSettings.weekStart)
  BY BarWeeksSplit
<1>3. IsFiniteSet(month)
  BY <1>1, OccurrencesFinite
<1>4. MonthDue(u, ws) \in SUBSET month
  BY DEF MonthDue
<1>5. \A o \in month : o.due \in MonthStart(ws) .. MonthEnd(ws)
  BY <1>1, OccurrencesAre, OccurrenceFields
<1>6. {o \in all : o.due \in MonthStart(ws) .. MonthEnd(ws)} = month
  BY <1>1, OccurrencesWithin
<1> HIDE DEF weeks, W, month, all
<1>7. \A d \in MonthStart(ws) .. MonthEnd(ws), n \in 1 .. W :
        /\ WeekOf(ws, d) \in 1 .. W
        /\ WeekOf(ws, d) = n <=> d \in weeks[n].start .. weeks[n].end
  <2> SUFFICES ASSUME NEW d \in MonthStart(ws) .. MonthEnd(ws), NEW n \in 1 .. W
               PROVE  /\ WeekOf(ws, d) \in 1 .. W
                      /\ WeekOf(ws, d) = n <=> d \in weeks[n].start .. weeks[n].end
    OBVIOUS
  <2>1. \E k \in 1 .. W : d \in weeks[k].start .. weeks[k].end
    BY <1>2 DEF Splits
  <2>2. WeekOf(ws, d) \in 1 .. W /\ d \in weeks[WeekOf(ws, d)].start .. weeks[WeekOf(ws, d)].end
    BY <2>1 DEF WeekOf, weeks, W
  <2>3. d \in Int
    BY <1>1
  <2> QED
    BY <1>2, <2>2, <2>3 DEF Splits
<1>8. ASSUME NEW n \in 1 .. W
      PROVE  DueIn(Share(u, ws), weeks[n]) = {o \in MonthDue(u, ws) : WeekOf(ws, o.due) = n}
  <2>1. \A d : d \in weeks[n].start .. weeks[n].end => d \in MonthStart(ws) .. MonthEnd(ws)
    BY <1>1, <1>2 DEF Splits
  <2>2. DueIn(Share(u, ws), weeks[n])
          = {o \in all : /\ o.due \in weeks[n].start .. weeks[n].end
                         /\ occurrenceCountsTowardDue(o)}
    BY DEF DueIn, Share, all
  <2>3. MonthDue(u, ws) = {o \in month : occurrenceCountsTowardDue(o)}
    BY DEF MonthDue, month
  <2> QED
    BY <1>5, <1>6, <1>7, <2>1, <2>2, <2>3
<1>9. \A o \in MonthDue(u, ws) : WeekOf(ws, o.due) \in 1 .. W
  <2>1. ASSUME NEW d \in MonthStart(ws) .. MonthEnd(ws) PROVE WeekOf(ws, d) \in 1 .. W
    <3>1. PICK n \in 1 .. W : d \in weeks[n].start .. weeks[n].end
      BY <1>2 DEF Splits
    <3> QED
      BY <1>7
  <2> QED
    BY <1>4, <1>5, <2>1
<1> QED
  BY <1>3, <1>4, <1>8, <1>9, FS_Subset DEF weeks, W

\* The numbers of bars are sums over the weeks of what counts in the month.
CountsWeeks(f, D, key, W) == f = [n \in 1 .. W |-> Cardinality({o \in D : key[o] = n})]

LEMMA SumsOverWeeks ==
  ASSUME NEW D, IsFiniteSet(D), NEW W \in Nat, NEW key, \A o \in D : key[o] \in 1 .. W,
         NEW f, CountsWeeks(f, D, key, W)
  PROVE  SumFunction(f) = Cardinality(D)
<1> DEFINE X == 1 .. W
<1>1. IsFiniteSet(X)
  BY FS_Interval
<1>2. \A n : Keyed(D, key, {n}) = {o \in D : key[o] = n}
  BY DEF Keyed
<1>3. Keyed(D, key, X) = D
  BY DEF Keyed
<1>4. f = [n \in X |-> Cardinality(Keyed(D, key, {n}))]
  BY <1>2 DEF CountsWeeks
<1> HIDE DEF X
<1>5. SumFunction(f) = Cardinality(Keyed(D, key, X))
  BY <1>1, <1>4, SumByKey
<1> QED
  BY <1>3, <1>5

LEMMA BarsSum ==
  ASSUME TablesTypeOK, NEW u, NEW ws \in Int, NEW bars,
         bars = [n \in 1 .. BarCount(ws) |-> BarOf(Share(u, ws), BarWeeks(ws), n)]
  PROVE  /\ SumFunction([n \in DOMAIN bars |-> bars[n].total]) = Cardinality(MonthDue(u, ws))
         /\ SumFunction([n \in DOMAIN bars |-> bars[n].completed])
              = Cardinality({o \in MonthDue(u, ws) : IsCompleted(o)})
<1> DEFINE D == MonthDue(u, ws)
           C == {o \in D : IsCompleted(o)}
           key == [o \in D |-> WeekOf(ws, o.due)]
           W == BarCount(ws)
           total == [n \in DOMAIN bars |-> bars[n].total]
           completed == [n \in DOMAIN bars |-> bars[n].completed]
<1>1. W \in Nat
  BY BarWeeksSplit
<1>2. /\ IsFiniteSet(D)
      /\ \A o \in D : WeekOf(ws, o.due) \in 1 .. W
      /\ \A n \in 1 .. W :
           DueIn(Share(u, ws), BarWeeks(ws)[n]) = {o \in D : WeekOf(ws, o.due) = n}
  BY DueInWeek
<1>3. \A o \in D : key[o] = WeekOf(ws, o.due)
  OBVIOUS
<1>4. C \in SUBSET D
  OBVIOUS
<1>5. \A n \in 1 .. W :
        /\ bars[n].total = Cardinality(DueIn(Share(u, ws), BarWeeks(ws)[n]))
        /\ bars[n].completed
             = Cardinality({o \in DueIn(Share(u, ws), BarWeeks(ws)[n]) : IsCompleted(o)})
  BY DEF BarOf
<1>6. DOMAIN bars = 1 .. W
  OBVIOUS
<1> HIDE DEF D, key, W
<1>7. ASSUME NEW n \in 1 .. W
      PROVE  /\ DueIn(Share(u, ws), BarWeeks(ws)[n]) = {o \in D : key[o] = n}
             /\ {o \in DueIn(Share(u, ws), BarWeeks(ws)[n]) : IsCompleted(o)}
                  = {o \in C : key[o] = n}
  BY <1>2, <1>3
<1>8. IsFiniteSet(C)
  BY <1>2, <1>4, FS_Subset
<1>9. /\ \A o \in D : key[o] \in 1 .. W
      /\ \A o \in C : key[o] \in 1 .. W
  BY <1>2, <1>3
<1>10. CountsWeeks(total, D, key, W)
  BY <1>5, <1>6, <1>7 DEF CountsWeeks
<1>11. CountsWeeks(completed, C, key, W)
  BY <1>5, <1>6, <1>7 DEF CountsWeeks
<1> HIDE DEF C, total, completed
<1>12. SumFunction(total) = Cardinality(D)
  BY <1>1, <1>2, <1>9, <1>10, SumsOverWeeks
<1>13. SumFunction(completed) = Cardinality(C)
  BY <1>1, <1>8, <1>9, <1>11, SumsOverWeeks
<1> QED
  BY <1>12, <1>13 DEF D, C, total, completed

LEMMA BarsPartition ==
  ASSUME TablesTypeOK
  PROVE  BarsPartitionMonth
<1> SUFFICES ASSUME NEW u \in members
             PROVE  Partition(BarWeeks(WeekStart), buildReportData(u, {}, NoWeek).bars,
                              MonthDue(u, WeekStart))
  BY DEF BarsPartitionMonth, BarWeeks, MonthDue
<1>1. NoWeek \in Asks
  BY DEF Asks
<1>2. PICK ws \in Int : ws = WeekStart /\ ws = ReportWeek(NoWeek)
  BY <1>1, ReportWeeks
<1>3. buildReportData(u, {}, NoWeek).bars = OneReport(ws, <<Share(u, ws)>>).bars
  BY <1>1, <1>2, OwnReport
<1>4. PICK bars : /\ bars = buildReportData(u, {}, NoWeek).bars
                  /\ bars = [n \in 1 .. BarCount(ws) |-> BarOf(Share(u, ws), BarWeeks(ws), n)]
  BY <1>3, OwnBars
<1>5. /\ SumFunction([n \in DOMAIN bars |-> bars[n].total]) = Cardinality(MonthDue(u, ws))
      /\ SumFunction([n \in DOMAIN bars |-> bars[n].completed])
           = Cardinality({o \in MonthDue(u, ws) : IsCompleted(o)})
  BY <1>4, BarsSum
<1>6. \A n \in DOMAIN BarWeeks(ws) :
        /\ BarWeeks(ws)[n].end - BarWeeks(ws)[n].start \in 0 .. 6
        /\ n > 1 => Weekday(BarWeeks(ws)[n].start) = AppSettings.weekStart
  BY BarWeeksSplit DEF Splits
<1>7. Partition(BarWeeks(ws), bars, MonthDue(u, ws))
  BY <1>5, <1>6 DEF Partition
<1> QED
  BY <1>2, <1>4, <1>7

\* The bars of the report of a user split the month of the week into weeks: the
\* sums over the bars are what the month has, each bar but the first starts on
\* the configured day, and none is longer than a week (reportWeekRanges and
\* buildWeeklyReportBars).
THEOREM BarsSplitMonths == TrackerSpec => []BarsPartitionMonth
BY BarsPartition, TrackerTablesCorrect, PTL

-----------------------------------------------------------------------------
(***************************************************************************)
(* The report of all users.                                                *)
(***************************************************************************)

\* The numbers of K parts, under whatever names they are added up.
Parts(occs, K) == UNION {{<<k, o>> : o \in occs[k]} : k \in 1 .. K}

Numbers(f, X, at, occs, K) ==
  /\ f = [x \in X |-> f[x]]
  /\ \A k \in 1 .. K : /\ at[k] \in X /\ f[at[k]] = Cardinality(occs[k])
                       /\ IsFiniteSet(occs[k])
  /\ \A k, l \in 1 .. K : at[k] = at[l] => k = l
  /\ \A x \in X : \E k \in 1 .. K : at[k] = x

LEMMA PartsFinite ==
  ASSUME NEW K \in Nat, NEW occs, \A k \in 1 .. K : IsFiniteSet(occs[k])
  PROVE  IsFiniteSet(Parts(occs, K))
<1> DEFINE part(k) == {<<k, o>> : o \in occs[k]}
           all == {part(k) : k \in 1 .. K}
<1>1. \A k \in 1 .. K : IsFiniteSet(part(k))
  BY Paired
<1>2. IsFiniteSet(1 .. K)
  BY UpTo
<1>3. Parts(occs, K) = UNION all
  BY DEF Parts
<1> HIDE DEF part
<1>4. IsFiniteSet(all)
  <2> DEFINE f == [k \in 1 .. K |-> part(k)]
  <2>1. f \in Surjection(1 .. K, all)
    BY DEF Surjection
  <2> QED
    BY <1>2, <2>1, FS_Surjection
<1>5. \A T \in all : IsFiniteSet(T)
  BY <1>1
<1> HIDE DEF all
<1> QED
  BY <1>3, <1>4, <1>5, FS_UNION

LEMMA SumOfParts ==
  ASSUME NEW K \in Nat, NEW occs, NEW X, NEW at, NEW f, Numbers(f, X, at, occs, K)
  PROVE  SumFunction(f) = Cardinality(Parts(occs, K))
<1> DEFINE U == Parts(occs, K)
           key == [p \in U |-> at[p[1]]]
<1>1. \A k \in 1 .. K : IsFiniteSet(occs[k])
  BY DEF Numbers
<1>2. IsFiniteSet(U)
  BY <1>1, PartsFinite
<1>3. IsFiniteSet(X)
  <2> DEFINE g == [k \in 1 .. K |-> at[k]]
  <2>1. g \in Surjection(1 .. K, X)
    BY DEF Numbers, Surjection
  <2>2. IsFiniteSet(1 .. K)
    BY UpTo
  <2> QED
    BY <2>1, <2>2, FS_Surjection
<1>4. \A p \in U : key[p] = at[p[1]] /\ p[1] \in 1 .. K
  BY DEF Parts
<1>5. \A p : p \in U <=> \E k \in 1 .. K : \E o \in occs[k] : p = <<k, o>>
  BY DEF Parts
<1> HIDE DEF U, key
<1>6. \A x \in X : f[x] = Cardinality(Keyed(U, key, {x}))
  <2> SUFFICES ASSUME NEW x \in X PROVE f[x] = Cardinality(Keyed(U, key, {x}))
    OBVIOUS
  <2>1. PICK k \in 1 .. K : at[k] = x
    BY DEF Numbers
  <2>2. \A p \in U : key[p] \in {x} <=> p[1] = k
    BY <1>4, <2>1 DEF Numbers
  <2>3. Keyed(U, key, {x}) = {<<k, o>> : o \in occs[k]}
    BY <1>5, <2>2 DEF Keyed
  <2>4. Cardinality({<<k, o>> : o \in occs[k]}) = Cardinality(occs[k])
    BY <1>1, Paired
  <2> QED
    BY <2>1, <2>3, <2>4 DEF Numbers
<1>7. Keyed(U, key, X) = U
  BY <1>4 DEF Keyed, Numbers
<1>8. f = [x \in X |-> Cardinality(Keyed(U, key, {x}))]
  BY <1>6 DEF Numbers
<1>9. SumFunction(f) = Cardinality(Keyed(U, key, X))
  BY <1>2, <1>3, <1>8, SumByKey
<1> QED
  BY <1>7, <1>9 DEF U

Shares(ws) == [k \in 1 .. Cardinality(members) |-> Share(ListActiveRegular[k], ws)]

LEMMA AllSelected ==
  ASSUME NEW N \in Nat, NEW all, all = [n \in 1 .. N |-> all[n]]
  PROVE  selectedReportUsersForCurrent(Administrator, all, {}) = all
<1> DEFINE raw == {all[n] : n \in DOMAIN all}
           seqs == [n \in DOMAIN all |-> IF all[n] \in raw THEN <<all[n]>> ELSE <<>>]
<1>1. selectedReportUsersForCurrent(Administrator, all, {}) = FlattenSeq(seqs)
  BY DEF selectedReportUsersForCurrent, selectedReportUsers
<1>2. DOMAIN all = 1 .. N
  OBVIOUS
<1>3. seqs = [n \in 1 .. N |-> <<all[n]>>]
  BY <1>2
<1> HIDE DEF seqs
<1>4. PICK W \in Nat : W = 1
  OBVIOUS
<1>5. \A n \in 1 .. N : seqs[n] = [m \in 1 .. W |-> seqs[n][m]] /\ seqs[n][1] = all[n]
  BY <1>3, <1>4
<1>6. InRows(seqs, N, W)
  BY <1>3, <1>5 DEF InRows
<1>7. FlattenSeq(seqs) = Flat(seqs, N, W)
  BY <1>6, FlatIs
<1>8. \A j \in 1 .. N : RowAt(j, W) = j /\ ColumnAt(j, W) = 1
  BY <1>4 DEF RowAt, ColumnAt
<1>9. W * N = N
  BY <1>4
<1>10. Flat(seqs, N, W) = [j \in 1 .. N |-> all[j]]
  BY <1>5, <1>8, <1>9 DEF Flat
<1> QED
  BY <1>1, <1>7, <1>10

LEMMA ReportParts ==
  ASSUME NEW bars, NEW matrix, NEW userReports
  PROVE  /\ Report(bars, matrix, userReports).bars = bars
         /\ Report(bars, matrix, userReports).matrix = matrix
BY DEF Report

LEMMA AllReport ==
  ASSUME TablesTypeOK, NEW s \in Asks, Cardinality(members) > 1
  PROVE  /\ buildReportData(Administrator, {}, s).bars
              = aggregateReportBarsForDisplay(OneReport(ReportWeek(s), Shares(ReportWeek(s))).bars,
                                              "Selected users")
         /\ buildReportData(Administrator, {}, s).matrix
              = buildAggregatedReportMatrix(ReportWeek(s), ReportWeek(s) + 6,
                                            Shares(ReportWeek(s)))
<1> DEFINE ws == ReportWeek(s)
           users == ListActiveRegular
           sets == SetsOf(users, MonthStart(ws), LastOf(ws))
<1>1. PICK N \in Nat : N = Cardinality(members) /\ N > 1
  BY MembersListed
<1>2. users = [n \in 1 .. N |-> users[n]]
  BY <1>1, MembersListed DEF Arranged
<1>3. selectedReportUsersForCurrent(Administrator, users, {}) = users
  BY <1>2, AllSelected
<1>4. /\ buildReportData(Administrator, {}, s).bars = ReportOver(ws, sets).bars
      /\ buildReportData(Administrator, {}, s).matrix = ReportOver(ws, sets).matrix
  BY <1>3 DEF buildReportData, ReportOn, ReportPage, LastOf
<1> HIDE DEF sets, ws, users
<1>5. sets = [k \in 1 .. N |-> Share(users[k], ws)]
  <2> DEFINE from == MonthStart(ws)
             to == LastOf(ws)
  <2> HIDE DEF from, to
  <2>1. SetsOf(users, from, to)
          = [k \in 1 .. N |-> [user |-> users[k], occs |-> OccurrencesBetween(users[k], from, to)]]
    BY <1>2, SetsAre
  <2> QED
    BY <2>1 DEF sets, from, to, Share
<1>6. sets = Shares(ws)
  BY <1>1, <1>5 DEF Shares, users
<1>7. Len(sets) = N
  BY <1>5
<1>8. Len(sets) > 1
  BY <1>1, <1>7
<1>9. PICK bars, matrix, per :
        /\ bars = aggregateReportBarsForDisplay(OneReport(ws, sets).bars, "Selected users")
        /\ matrix = buildAggregatedReportMatrix(ws, ws + 6, sets)
        /\ per = buildPerUserReportData(ws, sets)
  OBVIOUS
<1>10. ReportOver(ws, sets) = Report(bars, matrix, per)
  BY <1>8, <1>9 DEF ReportOver
<1>11. ReportOver(ws, sets).bars = bars /\ ReportOver(ws, sets).matrix = matrix
  BY <1>10, ReportParts
<1> QED
  BY <1>4, <1>6, <1>9, <1>11 DEF ws

\* The reports of the users.
OwnReports(s) == {<<u, buildReportData(u, {}, s)>> : u \in members}

OwnOf(k, s) == <<ListActiveRegular[k], buildReportData(ListActiveRegular[k], {}, s)>>

LEMMA MembersNumbered ==
  ASSUME TablesTypeOK
  PROVE  /\ \A k \in 1 .. Cardinality(members) : ListActiveRegular[k] \in members
         /\ \A k, l \in 1 .. Cardinality(members) :
              ListActiveRegular[k] = ListActiveRegular[l] => k = l
         /\ \A u \in members : \E k \in 1 .. Cardinality(members) : ListActiveRegular[k] = u
<1>1. Cardinality(members) \in Nat
      /\ Arranged(NameOrder, members, Cardinality(members), ListActiveRegular)
  BY MembersListed
<1>2. \A k, l \in 1 .. Cardinality(members) :
        k < l <=> <<ListActiveRegular[k], ListActiveRegular[l]>> \in NameOrder
  BY <1>1 DEF Arranged
<1>3. ASSUME NEW k \in 1 .. Cardinality(members), NEW l \in 1 .. Cardinality(members),
             ListActiveRegular[k] = ListActiveRegular[l]
      PROVE  k = l
  <2>1. k < l <=> k < k
    BY <1>2, <1>3
  <2>2. l < k <=> k < k
    BY <1>2, <1>3
  <2> QED
    BY <2>1, <2>2
<1> QED
  BY <1>1, <1>3 DEF Arranged

LEMMA ReportSums ==
  ASSUME TablesTypeOK, NEW s, NEW occs,
         \A k \in 1 .. Cardinality(members) : IsFiniteSet(occs[k]),
         NEW f, f = [x \in OwnReports(s) |-> f[x]],
         \A k \in 1 .. Cardinality(members) : f[OwnOf(k, s)] = Cardinality(occs[k])
  PROVE  SumFunction(f) = Cardinality(Parts(occs, Cardinality(members)))
<1>1. PICK N \in Nat : N = Cardinality(members)
  BY MembersListed
<1> DEFINE at == [k \in 1 .. N |-> OwnOf(k, s)]
           X == OwnReports(s)
<1>2. \A k \in 1 .. N : at[k] = OwnOf(k, s)
  OBVIOUS
<1>3. \A k \in 1 .. N : OwnOf(k, s) \in X
  BY <1>1, MembersNumbered DEF OwnOf, OwnReports
<1>4. \A k, l \in 1 .. N : OwnOf(k, s) = OwnOf(l, s) => k = l
  BY <1>1, MembersNumbered DEF OwnOf
<1>5. \A x \in X : \E k \in 1 .. N : OwnOf(k, s) = x
  BY <1>1, MembersNumbered DEF OwnOf, OwnReports
<1> HIDE DEF at, X
<1>6. f = [x \in X |-> f[x]]
  BY DEF X
<1>7. Numbers(f, X, at, occs, N)
  BY <1>1, <1>2, <1>3, <1>4, <1>5, <1>6 DEF Numbers
<1> QED
  BY <1>1, <1>7, SumOfParts

\* The totals of the matrix.
LEMMA PartsHaving ==
  ASSUME TablesTypeOK, NEW ws \in Int
  PROVE  /\ \A k \in 1 .. Cardinality(members) :
              InWeekOf(Shares(ws)[k], ws, ws + 6)
                = OccurrencesBetween(ListActiveRegular[k], ws, ws + 6)
         /\ \A x : x \in Occupied(Shares(ws), ws, ws + 6)
                     <=> \E k \in 1 .. Cardinality(members) :
                           \E o \in OccurrencesBetween(ListActiveRegular[k], ws, ws + 6) :
                             x = <<k, o>>
<1>1. ASSUME NEW k \in 1 .. Cardinality(members)
      PROVE  InWeekOf(Shares(ws)[k], ws, ws + 6)
               = OccurrencesBetween(ListActiveRegular[k], ws, ws + 6)
  <2>1. Shares(ws)[k] = Share(ListActiveRegular[k], ws)
    BY DEF Shares
  <2> QED
    BY <2>1, MonthAround, OccurrencesWithin DEF InWeekOf, Share
<1>2. DOMAIN Shares(ws) = 1 .. Cardinality(members)
  BY DEF Shares
<1> QED
  BY <1>1, <1>2 DEF Occupied

\* The parts of the matrix of several users.
AllTasks(all) == InOrder({x[2].task : x \in all}, TaskBefore)

AllCounts(all, i, d) ==
  [s \in Statuses |-> Cardinality({x \in all : x[2].task = i /\ x[2].due = d /\ x[2].status = s})]

AllRow(all, i) ==
  [task  |-> i,
   cells |-> [d \in {x[2].due : x \in {y \in all : y[2].task = i}} |->
                [status |-> aggregateStatus(AllCounts(all, i, d)), counts |-> AllCounts(all, i, d)]]]

LEMMA MatrixParts ==
  ASSUME NEW from, NEW to, NEW sets
  PROVE  /\ buildAggregatedReportMatrix(from, to, sets).done = MatrixDone(sets, from, to)
         /\ buildAggregatedReportMatrix(from, to, sets).due = MatrixDue(sets, from, to)
         /\ buildAggregatedReportMatrix(from, to, sets).rows
              = Listed([n \in DOMAIN AllTasks(Occupied(sets, from, to)) |->
                          AllRow(Occupied(sets, from, to), AllTasks(Occupied(sets, from, to))[n])])
<1> DEFINE all == Occupied(sets, from, to)
           rows == Listed([n \in DOMAIN AllTasks(all) |-> AllRow(all, AllTasks(all)[n])])
           done == MatrixDone(sets, from, to)
           due == MatrixDue(sets, from, to)
<1>1. buildAggregatedReportMatrix(from, to, sets) = [rows |-> rows, done |-> done, due |-> due]
  BY Zenon DEF buildAggregatedReportMatrix, AllTasks, AllRow, AllCounts
<1> HIDE DEF rows, done, due
<1>2. /\ buildAggregatedReportMatrix(from, to, sets).done = done
      /\ buildAggregatedReportMatrix(from, to, sets).due = due
      /\ buildAggregatedReportMatrix(from, to, sets).rows = rows
  BY <1>1
<1> QED
  BY <1>2 DEF rows, done, due

LEMMA TotalsAdd ==
  ASSUME TablesTypeOK, NEW s \in Asks, Cardinality(members) > 1
  PROVE  /\ buildReportData(Administrator, {}, s).matrix.done
              = SumFunction([x \in OwnReports(s) |-> x[2].matrix.done])
         /\ buildReportData(Administrator, {}, s).matrix.due
              = SumFunction([x \in OwnReports(s) |-> x[2].matrix.due])
<1>1. PICK ws \in Int : ws = ReportWeek(s)
  BY ReportWeeks
<1>2. PICK N \in Nat : N = Cardinality(members)
  BY MembersListed
<1> DEFINE all == Occupied(Shares(ws), ws, ws + 6)
           week(k) == OccurrencesBetween(ListActiveRegular[k], ws, ws + 6)
           done == [k \in 1 .. N |-> {o \in week(k) : IsCompleted(o)}]
           due == [k \in 1 .. N |-> {o \in week(k) : occurrenceCountsTowardDue(o)}]
           f == [x \in OwnReports(s) |-> x[2].matrix.done]
           g == [x \in OwnReports(s) |-> x[2].matrix.due]
<1>3. /\ buildReportData(Administrator, {}, s).matrix.done
           = Cardinality({x \in all : IsCompleted(x[2])})
      /\ buildReportData(Administrator, {}, s).matrix.due
           = Cardinality({x \in all : occurrenceCountsTowardDue(x[2])})
  <2>1. buildReportData(Administrator, {}, s).matrix
          = buildAggregatedReportMatrix(ws, ws + 6, Shares(ws))
    BY <1>1, AllReport
  <2>2. /\ MatrixDone(Shares(ws), ws, ws + 6) = Cardinality({x \in all : IsCompleted(x[2])})
        /\ MatrixDue(Shares(ws), ws, ws + 6)
             = Cardinality({x \in all : occurrenceCountsTowardDue(x[2])})
    BY DEF MatrixDone, MatrixDue
  <2>3. /\ buildAggregatedReportMatrix(ws, ws + 6, Shares(ws)).done
             = MatrixDone(Shares(ws), ws, ws + 6)
        /\ buildAggregatedReportMatrix(ws, ws + 6, Shares(ws)).due
             = MatrixDue(Shares(ws), ws, ws + 6)
    BY MatrixParts
  <2> HIDE DEF all
  <2> QED
    BY <2>1, <2>2, <2>3
<1>4. \A x : x \in all <=> \E k \in 1 .. N : \E o \in week(k) : x = <<k, o>>
  BY <1>2, PartsHaving
<1>5. ASSUME NEW k \in 1 .. N
      PROVE  /\ f[OwnOf(k, s)] = Cardinality(done[k])
             /\ g[OwnOf(k, s)] = Cardinality(due[k])
  <2>1. ListActiveRegular[k] \in members
    BY <1>2, MembersNumbered
  <2>2. PICK u \in members : u = ListActiveRegular[k]
    BY <2>1
  <2> DEFINE r == buildReportData(u, {}, s)
  <2>3. OwnOf(k, s) = <<u, r>> /\ <<u, r>> \in OwnReports(s)
    BY <2>2 DEF OwnOf, OwnReports
  <2> HIDE DEF r
  <2>4. f[OwnOf(k, s)] = r.matrix.done /\ g[OwnOf(k, s)] = r.matrix.due
    BY <2>3
  <2>5. r.matrix = OneReport(ws, <<Share(u, ws)>>).matrix
    BY <1>1, <2>2, OwnReport DEF r
  <2>6. done[k] = {o \in OccurrencesBetween(u, ws, ws + 6) : IsCompleted(o)}
        /\ due[k] = {o \in OccurrencesBetween(u, ws, ws + 6) : occurrenceCountsTowardDue(o)}
    BY <2>2
  <2> HIDE DEF done, due, f, g
  <2> QED
    BY <2>4, <2>5, <2>6, OwnMatrix
<1>6. ASSUME NEW k \in 1 .. N PROVE IsFiniteSet(done[k]) /\ IsFiniteSet(due[k])
  <2>1. IsFiniteSet(week(k))
    BY OccurrencesFinite
  <2>2. done[k] \in SUBSET week(k) /\ due[k] \in SUBSET week(k)
    OBVIOUS
  <2> HIDE DEF week, done, due
  <2> QED
    BY <2>1, <2>2, FS_Subset
<1> HIDE DEF week, all
<1>7. /\ {x \in all : IsCompleted(x[2])} = Parts(done, N)
      /\ {x \in all : occurrenceCountsTowardDue(x[2])} = Parts(due, N)
  BY <1>4 DEF Parts
<1>8. f = [x \in OwnReports(s) |-> f[x]] /\ g = [x \in OwnReports(s) |-> g[x]]
  OBVIOUS
<1> HIDE DEF done, due, f, g
<1>9. SumFunction(f) = Cardinality(Parts(done, N))
  BY <1>2, <1>5, <1>6, <1>8, ReportSums
<1>10. SumFunction(g) = Cardinality(Parts(due, N))
  BY <1>2, <1>5, <1>6, <1>8, ReportSums
<1> QED
  BY <1>3, <1>7, <1>9, <1>10 DEF f, g

\* The bar of a week, added up.
SameWeek(bars, n) == {k \in DOMAIN bars : bars[k].week = n}

AddedBar(bars, n, name) ==
  LET done  == SumFunction([k \in SameWeek(bars, n) |-> bars[k].completed])
      total == SumFunction([k \in SameWeek(bars, n) |-> bars[k].total])
  IN  [week |-> n, label |-> bars[CHOOSE k \in SameWeek(bars, n) : TRUE].label, name |-> name,
       completed |-> done, total |-> total, percent |-> percent(done, total)]

WeeksOf(bars) == {bars[k].week : k \in DOMAIN bars}

LEMMA AddedIs ==
  ASSUME NEW W \in Nat, NEW bars, NEW name, WeeksOf(bars) = 1 .. W
  PROVE  aggregateReportBarsForDisplay(bars, name) = [n \in 1 .. W |-> AddedBar(bars, n, name)]
<1> DEFINE weeks == WeeksOf(bars)
           row == [n \in weeks |-> AddedBar(bars, n, name)]
<1>1. aggregateReportBarsForDisplay(bars, name) = Listed(row)
  BY Zenon DEF aggregateReportBarsForDisplay, AddedBar, SameWeek, WeeksOf
<1>2. row = [n \in 1 .. W |-> AddedBar(bars, n, name)]
  <2> HIDE DEF weeks
  <2>1. weeks = 1 .. W
    BY DEF weeks
  <2> QED
    BY <2>1
<1> HIDE DEF row, weeks
<1>3. row = [n \in 1 .. W |-> row[n]]
  BY <1>2
<1>4. Listed(row) = row
  BY <1>3, ListedIs
<1> QED
  BY <1>1, <1>2, <1>4

LEMMA AddedParts ==
  ASSUME NEW bars, NEW n, NEW name
  PROVE  /\ AddedBar(bars, n, name).completed
              = SumFunction([k \in SameWeek(bars, n) |-> bars[k].completed])
         /\ AddedBar(bars, n, name).total
              = SumFunction([k \in SameWeek(bars, n) |-> bars[k].total])
<1> DEFINE done == SumFunction([k \in SameWeek(bars, n) |-> bars[k].completed])
           total == SumFunction([k \in SameWeek(bars, n) |-> bars[k].total])
           label == bars[CHOOSE k \in SameWeek(bars, n) : TRUE].label
<1>1. AddedBar(bars, n, name)
        = [week |-> n, label |-> label, name |-> name, completed |-> done, total |-> total,
           percent |-> percent(done, total)]
  BY DEF AddedBar
<1> HIDE DEF done, total, label
<1>2. AddedBar(bars, n, name).completed = done /\ AddedBar(bars, n, name).total = total
  BY <1>1
<1> QED
  BY <1>2 DEF done, total

\* The bars of all users, and the one for a user and a week.
AllBars(ws) == OneReport(ws, Shares(ws)).bars

BarPlace(ws, k, n) == BarCount(ws) * (k - 1) + n

DoneIn(set, week) == {o \in DueIn(set, week) : IsCompleted(o)}

LEMMA BarFields ==
  ASSUME NEW set, NEW weeks, NEW n
  PROVE  /\ BarOf(set, weeks, n).week = n
         /\ BarOf(set, weeks, n).total = Cardinality(DueIn(set, weeks[n]))
         /\ BarOf(set, weeks, n).completed = Cardinality(DoneIn(set, weeks[n]))
BY DEF BarOf, DoneIn

LEMMA AllBarsAre ==
  ASSUME TablesTypeOK, NEW ws \in Int
  PROVE  /\ DOMAIN AllBars(ws) = 1 .. BarCount(ws) * Cardinality(members)
         /\ \A k \in 1 .. Cardinality(members), n \in 1 .. BarCount(ws) :
              /\ BarPlace(ws, k, n) \in DOMAIN AllBars(ws)
              /\ AllBars(ws)[BarPlace(ws, k, n)] = BarOf(Shares(ws)[k], BarWeeks(ws), n)
              /\ \A l \in 1 .. Cardinality(members) :
                   BarPlace(ws, k, n) = BarPlace(ws, l, n) => k = l
         /\ \A j \in DOMAIN AllBars(ws) :
              \E k \in 1 .. Cardinality(members), n \in 1 .. BarCount(ws) : j = BarPlace(ws, k, n)
<1>1. PICK W \in Nat : W = BarCount(ws)
  BY BarWeeksSplit
<1>2. PICK N \in Nat : N = Cardinality(members)
  BY MembersListed
<1> DEFINE rows == BarRows(Shares(ws), N, BarWeeks(ws), W)
<1>3. DOMAIN Shares(ws) = 1 .. N
  BY <1>2 DEF Shares
<1>4. AllBars(ws) = Flat(rows, N, W)
  BY <1>1, <1>3, BarsOver DEF AllBars
<1>5. ASSUME NEW k \in 1 .. N, NEW n \in 1 .. W
      PROVE  rows[k][n] = BarOf(Shares(ws)[k], BarWeeks(ws), n)
  BY DEF BarRows
<1> HIDE DEF rows
<1>6. DOMAIN AllBars(ws) = 1 .. W * N
  BY <1>4 DEF Flat
<1>7. ASSUME NEW k \in 1 .. N, NEW n \in 1 .. W
      PROVE  /\ BarPlace(ws, k, n) \in 1 .. W * N
             /\ RowAt(BarPlace(ws, k, n), W) = k /\ ColumnAt(BarPlace(ws, k, n), W) = n
  <2>1. PICK p \in Nat : p = k - 1 /\ p + 1 <= N
    OBVIOUS
  <2>2. PICK a \in Nat, b \in Nat : a = W * p /\ b = W * N
    <3>1. W * p \in Nat /\ W * N \in Nat
      OBVIOUS
    <3> QED
      BY <3>1
  <2>3. a + W <= b
    <3>1. p \in Int /\ N \in Int
      OBVIOUS
    <3>2. W * p + W <= W * N
      BY <2>1, <3>1, More
    <3> QED
      BY <2>2, <3>2
  <2>4. PICK j \in Int : j = BarPlace(ws, k, n) /\ j = a + n
    <3>1. BarPlace(ws, k, n) = a + n
      BY <1>1, <2>1, <2>2 DEF BarPlace
    <3> QED
      BY <3>1
  <2>5. IsAt(j, W, p, n) /\ W # 0 /\ p \in Int
    BY <2>2, <2>4 DEF IsAt
  <2>6. RowAt(j, W) = p + 1 /\ ColumnAt(j, W) = n
    BY <2>5, PlaceIs
  <2>7. j \in 1 .. b
    BY <2>3, <2>4
  <2> QED
    BY <2>1, <2>2, <2>4, <2>6, <2>7
<1>8. ASSUME NEW k \in 1 .. N, NEW n \in 1 .. W
      PROVE  AllBars(ws)[BarPlace(ws, k, n)] = BarOf(Shares(ws)[k], BarWeeks(ws), n)
  <2>1. PICK j \in 1 .. W * N : j = BarPlace(ws, k, n)
    BY <1>7
  <2>2. AllBars(ws)[j] = rows[RowAt(j, W)][ColumnAt(j, W)]
    BY <1>4 DEF Flat
  <2> QED
    BY <1>5, <1>7, <2>1, <2>2
<1>9. ASSUME NEW j \in 1 .. W * N
      PROVE  \E k \in 1 .. N, n \in 1 .. W : j = BarPlace(ws, k, n)
  <2>1. W # 0
    OBVIOUS
  <2>2. PICK b \in Nat : b = W * N /\ j \in 1 .. b
    <3>1. W * N \in Nat
      OBVIOUS
    <3> QED
      BY <3>1
  <2>3. PICK k \in Int, n \in 1 .. W : j = W * (k - 1) + n
    <3>1. PICK i \in Int : i = j
      BY <2>2
    <3>2. RowAt(i, W) \in Int /\ ColumnAt(i, W) \in 1 .. W
          /\ i = W * (RowAt(i, W) - 1) + ColumnAt(i, W)
      BY <2>1, Place
    <3> QED
      BY <3>1, <3>2
  <2>4. k <= N
    <3> SUFFICES ASSUME N + 1 <= k PROVE FALSE
      OBVIOUS
    <3>1. PICK p \in Int : p = k - 1 /\ j = W * p + n
      BY <2>3
    <3>2. N = p \/ N + 1 <= p
      BY <3>1
    <3>3. W * N <= W * p
      <4>1. N + 1 <= p => W * N + W <= W * p
        BY More
      <4>2. W * N \in Int /\ W * p \in Int
        OBVIOUS
      <4> QED
        BY <3>2, <4>1, <4>2
    <3>4. PICK c \in Int : c = W * p
      OBVIOUS
    <3> QED
      BY <2>2, <3>1, <3>3, <3>4
  <2>5. k >= 1
    <3> SUFFICES ASSUME k <= 0 PROVE FALSE
      OBVIOUS
    <3>1. PICK p \in Int : p = k - 1 /\ j = W * p + n
      BY <2>3
    <3>2. p + 1 <= 0 /\ 0 \in Int
      BY <3>1
    <3>3. W * p + W <= W * 0
      BY <3>2, More
    <3>4. PICK c \in Int : c = W * p
      OBVIOUS
    <3> QED
      BY <2>2, <3>1, <3>3, <3>4
  <2> QED
    BY <1>1, <2>3, <2>4, <2>5 DEF BarPlace
<1>10. \A k, l \in 1 .. N, n \in 1 .. W : BarPlace(ws, k, n) = BarPlace(ws, l, n) => k = l
  BY <1>7
<1> QED
  BY <1>1, <1>2, <1>6, <1>7, <1>8, <1>9, <1>10

LEMMA BarsAdd ==
  ASSUME TablesTypeOK, NEW s \in Asks, Cardinality(members) > 1,
         NEW n \in DOMAIN buildReportData(Administrator, {}, s).bars
  PROVE  /\ buildReportData(Administrator, {}, s).bars[n].total
              = SumFunction([x \in OwnReports(s) |-> x[2].bars[n].total])
         /\ buildReportData(Administrator, {}, s).bars[n].completed
              = SumFunction([x \in OwnReports(s) |-> x[2].bars[n].completed])
<1>1. PICK ws \in Int : ws = ReportWeek(s)
  BY ReportWeeks
<1>2. PICK N \in Nat, W \in Nat : N = Cardinality(members) /\ W = BarCount(ws) /\ N > 1
  BY MembersListed, BarWeeksSplit
<1> DEFINE bars == AllBars(ws)
           X == SameWeek(bars, n)
           weeks == BarWeeks(ws)
<1>3. /\ DOMAIN bars = 1 .. W * N
      /\ \A k \in 1 .. N, m \in 1 .. W :
           /\ BarPlace(ws, k, m) \in DOMAIN bars
           /\ bars[BarPlace(ws, k, m)] = BarOf(Shares(ws)[k], weeks, m)
           /\ \A l \in 1 .. N : BarPlace(ws, k, m) = BarPlace(ws, l, m) => k = l
      /\ \A j \in DOMAIN bars : \E k \in 1 .. N, m \in 1 .. W : j = BarPlace(ws, k, m)
  BY <1>2, AllBarsAre
<1> HIDE DEF bars, weeks
<1>4. \A k \in 1 .. N, m \in 1 .. W : bars[BarPlace(ws, k, m)].week = m
  <2> SUFFICES ASSUME NEW k \in 1 .. N, NEW m \in 1 .. W PROVE bars[BarPlace(ws, k, m)].week = m
    OBVIOUS
  <2>1. bars[BarPlace(ws, k, m)] = BarOf(Shares(ws)[k], weeks, m)
    BY <1>3
  <2>2. BarOf(Shares(ws)[k], weeks, m).week = m
    BY BarFields
  <2> QED
    BY <2>1, <2>2
<1>5. WeeksOf(bars) = 1 .. W
  <2>1. ASSUME NEW j \in DOMAIN bars PROVE bars[j].week \in 1 .. W
    <3>1. PICK k \in 1 .. N, m \in 1 .. W : j = BarPlace(ws, k, m)
      BY <1>3
    <3> QED
      BY <1>4, <3>1
  <2>2. ASSUME NEW m \in 1 .. W PROVE \E j \in DOMAIN bars : bars[j].week = m
    <3>1. 1 \in 1 .. N
      BY <1>2
    <3> QED
      BY <1>3, <1>4, <3>1
  <2> QED
    BY <2>1, <2>2 DEF WeeksOf
<1>6. buildReportData(Administrator, {}, s).bars
        = [m \in 1 .. W |-> AddedBar(bars, m, "Selected users")]
  <2>1. buildReportData(Administrator, {}, s).bars
          = aggregateReportBarsForDisplay(bars, "Selected users")
    BY <1>1, AllReport DEF bars, AllBars
  <2>2. aggregateReportBarsForDisplay(bars, "Selected users")
          = [m \in 1 .. W |-> AddedBar(bars, m, "Selected users")]
    <3> DEFINE name == "Selected users"
    <3> HIDE DEF name
    <3>1. aggregateReportBarsForDisplay(bars, name) = [m \in 1 .. W |-> AddedBar(bars, m, name)]
      BY <1>5, AddedIs
    <3> QED
      BY <3>1 DEF name
  <2> QED
    BY <2>1, <2>2
<1>7. n \in 1 .. W /\ buildReportData(Administrator, {}, s).bars[n]
                        = AddedBar(bars, n, "Selected users")
  BY <1>6
<1> DEFINE at == [k \in 1 .. N |-> BarPlace(ws, k, n)]
           due == [k \in 1 .. N |-> DueIn(Shares(ws)[k], weeks[n])]
           done == [k \in 1 .. N |-> DoneIn(Shares(ws)[k], weeks[n])]
           f == [j \in X |-> bars[j].completed]
           g == [j \in X |-> bars[j].total]
           own == [x \in OwnReports(s) |-> x[2].bars[n].completed]
           sum == [x \in OwnReports(s) |-> x[2].bars[n].total]
<1>8. /\ buildReportData(Administrator, {}, s).bars[n].total = SumFunction(g)
      /\ buildReportData(Administrator, {}, s).bars[n].completed = SumFunction(f)
  BY <1>7, AddedParts
<1>9. ASSUME NEW k \in 1 .. N
      PROVE  /\ at[k] \in X
             /\ f[at[k]] = Cardinality(done[k]) /\ g[at[k]] = Cardinality(due[k])
  <2>1. at[k] \in X
    BY <1>3, <1>4, <1>7 DEF SameWeek
  <2>2. bars[at[k]] = BarOf(Shares(ws)[k], weeks, n)
    BY <1>3, <1>7
  <2>3. f[at[k]] = bars[at[k]].completed /\ g[at[k]] = bars[at[k]].total
    BY <2>1
  <2>4. due[k] = DueIn(Shares(ws)[k], weeks[n])
        /\ done[k] = DoneIn(Shares(ws)[k], weeks[n])
    OBVIOUS
  <2> HIDE DEF f, g, due, done, at, X
  <2> QED
    BY <2>1, <2>2, <2>3, <2>4, BarFields
<1>10. \A k, l \in 1 .. N : at[k] = at[l] => k = l
  BY <1>3, <1>7
<1>11. ASSUME NEW j \in X PROVE \E k \in 1 .. N : at[k] = j
  <2>1. j \in DOMAIN bars /\ bars[j].week = n
    BY DEF SameWeek
  <2>2. PICK k \in 1 .. N, m \in 1 .. W : j = BarPlace(ws, k, m)
    BY <1>3, <2>1
  <2>3. m = n
    BY <1>4, <2>1, <2>2
  <2> QED
    BY <2>2, <2>3
<1>12. ASSUME NEW k \in 1 .. N PROVE IsFiniteSet(done[k]) /\ IsFiniteSet(due[k])
  <2>1. IsFiniteSet(Shares(ws)[k].occs)
    BY <1>2, MonthAround, OccurrencesFinite DEF Shares, Share
  <2>2. due[k] \in SUBSET Shares(ws)[k].occs
    BY DEF DueIn
  <2>3. done[k] \in SUBSET due[k]
    BY DEF DoneIn
  <2> HIDE DEF due, done
  <2> QED
    BY <2>1, <2>2, <2>3, FS_Subset
<1>13. ASSUME NEW k \in 1 .. N
       PROVE  /\ own[OwnOf(k, s)] = Cardinality(done[k])
              /\ sum[OwnOf(k, s)] = Cardinality(due[k])
  <2>1. PICK u \in members : u = ListActiveRegular[k]
    BY <1>2, MembersNumbered
  <2> DEFINE r == buildReportData(u, {}, s)
  <2>2. OwnOf(k, s) = <<u, r>> /\ <<u, r>> \in OwnReports(s)
    BY <2>1 DEF OwnOf, OwnReports
  <2>3. r.bars[n] = BarOf(Share(u, ws), weeks, n)
    <3>1. r.bars = OneReport(ws, <<Share(u, ws)>>).bars
      BY <1>1, OwnReport
    <3>2. OneReport(ws, <<Share(u, ws)>>).bars
            = [m \in 1 .. W |-> BarOf(Share(u, ws), weeks, m)]
      BY <1>2, OwnBars DEF weeks
    <3> HIDE DEF r
    <3> QED
      BY <1>7, <3>1, <3>2
  <2> HIDE DEF r
  <2>4. own[OwnOf(k, s)] = r.bars[n].completed /\ sum[OwnOf(k, s)] = r.bars[n].total
    BY <2>2
  <2>5. Shares(ws)[k] = Share(u, ws)
    BY <1>2, <2>1 DEF Shares
  <2>6. due[k] = DueIn(Share(u, ws), weeks[n])
        /\ done[k] = DoneIn(Share(u, ws), weeks[n])
    BY <2>5
  <2> HIDE DEF own, sum, due, done
  <2> QED
    BY <2>3, <2>4, <2>6, BarFields
<1>14. /\ f = [j \in X |-> f[j]] /\ g = [j \in X |-> g[j]]
       /\ own = [x \in OwnReports(s) |-> own[x]] /\ sum = [x \in OwnReports(s) |-> sum[x]]
  OBVIOUS
<1> HIDE DEF f, g, own, sum, due, done, at, X
<1>15. Numbers(f, X, at, done, N) /\ Numbers(g, X, at, due, N)
  BY <1>9, <1>10, <1>11, <1>12, <1>14 DEF Numbers
<1>16. /\ SumFunction(f) = Cardinality(Parts(done, N))
       /\ SumFunction(g) = Cardinality(Parts(due, N))
  BY <1>15, SumOfParts
<1>17. SumFunction(own) = Cardinality(Parts(done, N))
  BY <1>2, <1>12, <1>13, <1>14, ReportSums
<1>18. SumFunction(sum) = Cardinality(Parts(due, N))
  BY <1>2, <1>12, <1>13, <1>14, ReportSums
<1> QED
  BY <1>8, <1>16, <1>17, <1>18 DEF f, g, own, sum, X

\* An occurrence of a range is that of its task on its date.
LEMMA OccurrenceKnown ==
  ASSUME TablesTypeOK, NEW u, NEW from \in Int, NEW to \in Int,
         NEW o \in OccurrencesBetween(u, from, to)
  PROVE  o.task \in TaskIds /\ o.task \in Existing /\ o = OccurrenceOf(u, o.task, o.due)
<1>1. PICK i \in Active, d \in from .. to : o = OccurrenceOf(u, i, d)
  BY OccurrencesAre
<1>2. o.task = i /\ o.due = d
  BY <1>1, OccurrenceFields
<1> QED
  BY <1>1, <1>2 DEF Active, Existing

\* The rows of the matrix of one user: one for each of the tasks of the week.
Tabled(week) == {<<1, o.task>> : o \in week}

TaskOrder == {x \in Existing \X Existing : TaskBefore(x[1], x[2])}

KeyOrder(week) == {x \in Tabled(week) \X Tabled(week) : <<x[1][2], x[2][2]>> \in TaskOrder}

OwnRow(u, week, key) ==
  LET occs == {o \in week : o.task = key[2]}
  IN  [task  |-> key[2], user |-> u,
       cells |-> [d \in {o.due : o \in occs} |-> (CHOOSE o \in occs : o.due = d).status]]

LEMMA TasksOrdered == ASSUME TablesTypeOK PROVE StrictlyOrders(TaskOrder, Existing)
<1>1. \A i \in Existing : i \in Int /\ tasks[i].seq \in Int /\ tasks[i].title \in Int
  <2>1. \A i \in Existing : i \in Int
    BY TablesAssumption DEF Existing, TaskIds
  <2> QED
    BY <2>1, RowsAndDates DEF Task
<1>2. \A i, j \in Existing : <<i, j>> \in TaskOrder <=> TaskBefore(i, j)
  BY DEF TaskOrder
<1>3. /\ \A i \in Existing : ~TaskBefore(i, i)
      /\ \A i, j \in Existing : i # j => TaskBefore(i, j) \/ TaskBefore(j, i)
      /\ \A i, j, k \in Existing : TaskBefore(i, j) /\ TaskBefore(j, k) => TaskBefore(i, k)
  BY <1>1 DEF TaskBefore
<1> QED
  BY <1>2, <1>3 DEF StrictlyOrders

LEMMA KeysOrdered ==
  ASSUME TablesTypeOK, NEW week, \A o \in week : o.task \in Existing
  PROVE  StrictlyOrders(KeyOrder(week), Tabled(week)) /\ IsFiniteSet(Tabled(week))
<1> DEFINE R == KeyOrder(week)
<1>1. \A a \in Tabled(week) : a = <<1, a[2]>> /\ a[2] \in Existing
  BY DEF Tabled
<1>2. \A a, b \in Tabled(week) : <<a, b>> \in R <=> <<a[2], b[2]>> \in TaskOrder
  BY DEF KeyOrder
<1>3. /\ \A i \in Existing : <<i, i>> \notin TaskOrder
      /\ \A i, j \in Existing : i # j => <<i, j>> \in TaskOrder \/ <<j, i>> \in TaskOrder
      /\ \A i, j, k \in Existing :
           <<i, j>> \in TaskOrder /\ <<j, k>> \in TaskOrder => <<i, k>> \in TaskOrder
  BY TasksOrdered DEF StrictlyOrders
<1>4. \A a, b \in Tabled(week) : a # b => a[2] # b[2]
  BY <1>1
<1>5. StrictlyOrders(R, Tabled(week))
  <2> DEFINE S == Tabled(week)
  <2> HIDE DEF R, S
  <2>1. \A x \in S : <<x, x>> \notin R
    BY <1>1, <1>2, <1>3 DEF S
  <2>2. ASSUME NEW x \in S, NEW y \in S, x # y PROVE <<x, y>> \in R \/ <<y, x>> \in R
    <3>1. x[2] \in Existing /\ y[2] \in Existing /\ x[2] # y[2]
      BY <1>1, <1>4, <2>2 DEF S
    <3>2. <<x[2], y[2]>> \in TaskOrder \/ <<y[2], x[2]>> \in TaskOrder
      BY <1>3, <3>1
    <3> QED
      BY <1>2, <3>2 DEF S
  <2>3. ASSUME NEW x \in S, NEW y \in S, NEW z \in S, <<x, y>> \in R, <<y, z>> \in R
        PROVE  <<x, z>> \in R
    <3>1. x[2] \in Existing /\ y[2] \in Existing /\ z[2] \in Existing
      BY <1>1 DEF S
    <3>2. <<x[2], y[2]>> \in TaskOrder /\ <<y[2], z[2]>> \in TaskOrder
      BY <1>2, <2>3 DEF S
    <3>3. <<x[2], z[2]>> \in TaskOrder
      BY <1>3, <3>1, <3>2
    <3> QED
      BY <1>2, <3>3 DEF S
  <2> QED
    BY <2>1, <2>2, <2>3 DEF StrictlyOrders, S
<1>6. IsFiniteSet(Tabled(week))
  <2> DEFINE pairs == {<<1, i>> : i \in Existing}
  <2>1. IsFiniteSet(pairs)
    BY ExistingFinite, Paired
  <2>2. Tabled(week) \in SUBSET pairs
    BY <1>1
  <2> QED
    BY <2>1, <2>2, FS_Subset
<1> QED
  BY <1>5, <1>6 DEF R

\* The parts of the matrix of one report.
KeysIn(sets, from, to) == {<<x[1], x[2].task>> : x \in Occupied(sets, from, to)}

ComesBefore(sets, a, b) ==
  \/ Name[sets[a[1]].user] < Name[sets[b[1]].user]
  \/ /\ Name[sets[a[1]].user] = Name[sets[b[1]].user]
     /\ TaskBefore(a[2], b[2]) \/ (a[2] = b[2] /\ a[1] < b[1])

KeyPlace(sets, from, to, n) ==
  CHOOSE x \in KeysIn(sets, from, to) :
    Cardinality({y \in KeysIn(sets, from, to) : ComesBefore(sets, y, x)}) = n - 1

KeyList(sets, from, to) ==
  Listed([n \in 1 .. Cardinality(KeysIn(sets, from, to)) |-> KeyPlace(sets, from, to, n)])

RowIn(sets, from, to, key) ==
  LET occs == {o \in InWeekOf(sets[key[1]], from, to) : o.task = key[2]}
  IN  [task  |-> key[2], user |-> sets[key[1]].user,
       cells |-> [d \in {o.due : o \in occs} |-> (CHOOSE o \in occs : o.due = d).status]]

LEMMA RowsIn ==
  ASSUME NEW from, NEW to, NEW sets
  PROVE  buildReportMatrix(from, to, sets).rows
           = Listed([n \in DOMAIN KeyList(sets, from, to) |->
                       RowIn(sets, from, to, KeyList(sets, from, to)[n])])
<1> DEFINE rows == Listed([n \in DOMAIN KeyList(sets, from, to) |->
                             RowIn(sets, from, to, KeyList(sets, from, to)[n])])
           done == MatrixDone(sets, from, to)
           due == MatrixDue(sets, from, to)
<1>1. buildReportMatrix(from, to, sets) = [rows |-> rows, done |-> done, due |-> due]
  BY Zenon DEF buildReportMatrix, InOrder, KeysIn, ComesBefore, KeyPlace, KeyList, RowIn
<1> HIDE DEF rows, done, due
<1>2. buildReportMatrix(from, to, sets).rows = rows
  BY <1>1
<1> QED
  BY <1>2 DEF rows

Week(u, ws) == OccurrencesBetween(u, ws, ws + 6)

LEMMA OwnRows ==
  ASSUME TablesTypeOK, NEW u \in members, NEW ws \in Int
  PROVE  \E list, rows :
           /\ Placed(KeyOrder(Week(u, ws)), Tabled(Week(u, ws)), list)
           /\ rows = [n \in 1 .. Cardinality(Tabled(Week(u, ws))) |->
                        OwnRow(u, Week(u, ws), list[n])]
           /\ OneReport(ws, <<Share(u, ws)>>).matrix.rows = rows
<1> DEFINE sets == <<Share(u, ws)>>
           week == Week(u, ws)
           S == Tabled(week)
           R == KeyOrder(week)
           from == ws
           to == ws + 6
           list == [n \in 1 .. Cardinality(S) |-> KeyPlace(sets, from, to, n)]
           rows == [n \in 1 .. Cardinality(S) |-> OwnRow(u, week, list[n])]
<1>1. OneReport(ws, sets).matrix.rows = buildReportMatrix(from, to, sets).rows
  BY DEF OneReport, Report
<1>2. DOMAIN sets = {1} /\ sets[1] = Share(u, ws) /\ Share(u, ws).user = u
  BY DEF Share
<1>3. InWeekOf(sets[1], from, to) = week
  BY <1>2, MonthAround, OccurrencesWithin DEF InWeekOf, Share, Week
<1> HIDE DEF sets, from, to, week
<1>4. Occupied(sets, from, to) = {<<1, o>> : o \in week}
  BY <1>2, <1>3 DEF Occupied
<1>5. KeysIn(sets, from, to) = S
  <2> DEFINE all == {<<1, o>> : o \in week}
             keys == {<<x[1], x[2].task>> : x \in all}
  <2>1. KeysIn(sets, from, to) = keys
    BY <1>4 DEF KeysIn
  <2>2. \A o \in week : <<1, o>> \in all /\ <<1, o>>[1] = 1 /\ <<1, o>>[2] = o
    OBVIOUS
  <2>3. \A x \in all : \E o \in week : x = <<1, o>> /\ x[1] = 1 /\ x[2] = o
    OBVIOUS
  <2> HIDE DEF all
  <2>4. ASSUME NEW y \in keys PROVE y \in S
    <3>1. PICK x \in all : y = <<x[1], x[2].task>>
      OBVIOUS
    <3>2. PICK o \in week : x[1] = 1 /\ x[2] = o
      BY <2>3
    <3> QED
      BY <3>1, <3>2 DEF Tabled
  <2>5. ASSUME NEW y \in S PROVE y \in keys
    <3>1. PICK o \in week : y = <<1, o.task>>
      BY DEF Tabled
    <3>2. PICK x \in all : x[1] = 1 /\ x[2] = o
      BY <2>2
    <3>3. y = <<x[1], x[2].task>>
      BY <3>1, <3>2
    <3> QED
      BY <3>3
  <2> HIDE DEF keys, S
  <2> QED
    BY <2>1, <2>4, <2>5
<1>6. \A o \in week : o.task \in Existing
  BY OccurrenceKnown DEF week, Week
<1>7. StrictlyOrders(R, S) /\ IsFiniteSet(S) /\ Cardinality(S) \in Nat
  BY <1>6, KeysOrdered, FS_CardinalityType
<1>8. \A x \in S : x = <<1, x[2]>> /\ x[1] = 1 /\ x[2] \in Existing
  BY <1>6 DEF Tabled
<1>9. ASSUME NEW x \in S PROVE {y \in S : ComesBefore(sets, y, x)} = Below(R, S, x)
  <2>1. Name[u] \in Int
    BY NamesAssumption DEF TablesTypeOK
  <2>2. ASSUME NEW y \in S PROVE ComesBefore(sets, y, x) <=> TaskBefore(y[2], x[2])
    <3>1. sets[y[1]].user = u /\ sets[x[1]].user = u
      BY <1>2, <1>8
    <3>2. ~(y[1] < x[1])
      BY <1>8
    <3> QED
      BY <2>1, <3>1, <3>2 DEF ComesBefore
  <2>3. \A y \in S : <<y, x>> \in R <=> TaskBefore(y[2], x[2])
    BY <1>8 DEF KeyOrder, TaskOrder
  <2> HIDE DEF R, S
  <2> QED
    BY <2>2, <2>3 DEF Below
<1> HIDE DEF R, S
<1>10. \A n \in 1 .. Cardinality(S) : \E x \in S : Cardinality(Below(R, S, x)) = n - 1
  BY <1>7, OrderedPlaces
<1>11. ASSUME NEW n \in 1 .. Cardinality(S)
       PROVE  /\ KeyPlace(sets, from, to, n) \in S
              /\ Cardinality(Below(R, S, KeyPlace(sets, from, to, n))) = n - 1
  <2> DEFINE k == CHOOSE x \in S : Cardinality({y \in S : ComesBefore(sets, y, x)}) = n - 1
  <2>1. KeyPlace(sets, from, to, n) = k
    BY <1>5 DEF KeyPlace
  <2>2. PICK x \in S : Cardinality(Below(R, S, x)) = n - 1
    BY <1>10
  <2>3. Cardinality({y \in S : ComesBefore(sets, y, x)}) = n - 1
    BY <1>9, <2>2
  <2>4. k \in S /\ Cardinality({y \in S : ComesBefore(sets, y, k)}) = n - 1
    BY <2>3
  <2> HIDE DEF k
  <2> QED
    BY <1>9, <2>1, <2>4
<1>12. \A n \in 1 .. Cardinality(S) : list[n] = KeyPlace(sets, from, to, n)
  OBVIOUS
<1>13. list = [n \in 1 .. Cardinality(S) |-> list[n]]
  OBVIOUS
<1>14. KeyList(sets, from, to) = Listed(list)
  BY <1>5 DEF KeyList
<1> HIDE DEF list
<1>15. Placed(R, S, list)
  BY <1>11, <1>12, <1>13 DEF Placed
<1>16. Listed(list) = list /\ DOMAIN list = 1 .. Cardinality(S)
  BY <1>7, <1>13, ListedIs
<1>17. \A n \in 1 .. Cardinality(S) : RowIn(sets, from, to, list[n]) = OwnRow(u, week, list[n])
  <2> SUFFICES ASSUME NEW n \in 1 .. Cardinality(S)
               PROVE  RowIn(sets, from, to, list[n]) = OwnRow(u, week, list[n])
    OBVIOUS
  <2>1. PICK key \in S : key = list[n]
    BY <1>11, <1>12
  <2>2. sets[key[1]].user = u /\ InWeekOf(sets[key[1]], from, to) = week
    BY <1>2, <1>3, <1>8
  <2> QED
    BY <2>1, <2>2 DEF RowIn, OwnRow
<1>18. [n \in DOMAIN list |-> RowIn(sets, from, to, list[n])] = rows
  BY <1>16, <1>17
<1>19. rows = [n \in 1 .. Cardinality(S) |-> rows[n]]
  OBVIOUS
<1> HIDE DEF rows
<1>20. Listed(rows) = rows
  BY <1>7, <1>19, ListedIs
<1>21. buildReportMatrix(from, to, sets).rows = rows
  <2>1. buildReportMatrix(from, to, sets).rows
          = Listed([n \in DOMAIN KeyList(sets, from, to) |->
                      RowIn(sets, from, to, KeyList(sets, from, to)[n])])
    BY RowsIn
  <2>2. KeyList(sets, from, to) = list
    BY <1>14, <1>16
  <2> QED
    BY <1>18, <1>20, <2>1, <2>2
<1>22. OneReport(ws, <<Share(u, ws)>>).matrix.rows = rows
  BY <1>1, <1>21 DEF sets
<1>23. rows = [n \in 1 .. Cardinality(S) |-> OwnRow(u, week, list[n])]
  BY DEF rows
<1> QED
  BY <1>15, <1>22, <1>23 DEF S, R, week

\* A cell of the matrix of one user shows the occurrence of the task on the date.
Shows(rows, i, d, status) ==
  \E n \in DOMAIN rows : LET row == rows[n]
                         IN  row.task = i /\ d \in DOMAIN row.cells /\ row.cells[d] = status

Happens(week, i, d, status) == \E o \in week : o.task = i /\ o.due = d /\ o.status = status

OnePerCell(week) == \A o, p \in week : o.task = p.task /\ o.due = p.due => o = p

RowIsOf(row, week, i) ==
  /\ row.task = i
  /\ \A d : d \in DOMAIN row.cells <=> \E o \in week : o.task = i /\ o.due = d
  /\ \A o \in week : o.task = i => row.cells[o.due] = o.status

LEMMA RowShows ==
  ASSUME NEW u, NEW week, OnePerCell(week), NEW key
  PROVE  RowIsOf(OwnRow(u, week, key), week, key[2])
<1> DEFINE occs == {o \in week : o.task = key[2]}
           pick(d) == CHOOSE o \in occs : o.due = d
           cells == [d \in {o.due : o \in occs} |-> pick(d).status]
<1>1. OwnRow(u, week, key) = [task |-> key[2], user |-> u, cells |-> cells]
  BY DEF OwnRow
<1>2. ASSUME NEW o \in week, o.task = key[2] PROVE pick(o.due) = o
  <2>1. o \in occs
    BY <1>2
  <2>2. pick(o.due) \in occs /\ pick(o.due).due = o.due
    BY <2>1
  <2> HIDE DEF pick
  <2> QED
    BY <1>2, <2>2 DEF OnePerCell
<1> HIDE DEF pick
<1>3. \A d : d \in DOMAIN cells <=> \E o \in week : o.task = key[2] /\ o.due = d
  OBVIOUS
<1>4. ASSUME NEW o \in week, o.task = key[2] PROVE cells[o.due] = o.status
  <2>1. o.due \in {p.due : p \in occs}
    BY <1>4
  <2> HIDE DEF occs
  <2> QED
    BY <1>2, <1>4, <2>1
<1> HIDE DEF cells
<1>5. OwnRow(u, week, key).task = key[2] /\ OwnRow(u, week, key).cells = cells
  BY <1>1
<1> QED
  BY <1>3, <1>4, <1>5 DEF RowIsOf

LEMMA OwnCells ==
  ASSUME TablesTypeOK, NEW u \in members, NEW ws \in Int, NEW i, NEW d, NEW status
  PROVE  Shows(OneReport(ws, <<Share(u, ws)>>).matrix.rows, i, d, status)
           <=> Happens(Week(u, ws), i, d, status)
<1> DEFINE week == Week(u, ws)
           S == Tabled(week)
           N == Cardinality(S)
<1>1. PICK list, rows :
        /\ Placed(KeyOrder(week), S, list)
        /\ rows = [n \in 1 .. N |-> OwnRow(u, week, list[n])]
        /\ OneReport(ws, <<Share(u, ws)>>).matrix.rows = rows
  BY OwnRows
<1>2. \A o \in week : o.task \in Existing /\ o = OccurrenceOf(u, o.task, o.due)
  BY OccurrenceKnown DEF Week
<1> HIDE DEF week, N
<1>3. StrictlyOrders(KeyOrder(week), S) /\ IsFiniteSet(S)
  BY <1>2, KeysOrdered
<1>4. OnePerCell(week)
  BY <1>2 DEF OnePerCell
<1>5. \A x \in S : \E n \in 1 .. N : list[n] = x
  <2> HIDE DEF S
  <2> QED
    BY <1>1, <1>3, InPlaces DEF N
<1>6. ASSUME Shows(rows, i, d, status) PROVE Happens(week, i, d, status)
  <2>1. PICK n \in 1 .. N : /\ rows[n].task = i /\ d \in DOMAIN rows[n].cells
                            /\ rows[n].cells[d] = status
    BY <1>1, <1>6 DEF Shows
  <2>2. PICK key : key = list[n] /\ rows[n] = OwnRow(u, week, key)
    BY <1>1
  <2>3. RowIsOf(rows[n], week, key[2])
    BY <1>4, <2>2, RowShows
  <2>4. PICK o \in week : o.task = key[2] /\ o.due = d
    BY <2>1, <2>3 DEF RowIsOf
  <2>5. o.task = i /\ o.status = status
    BY <2>1, <2>3, <2>4 DEF RowIsOf
  <2> QED
    BY <2>4, <2>5 DEF Happens
<1>7. ASSUME Happens(week, i, d, status) PROVE Shows(rows, i, d, status)
  <2>1. PICK o \in week : o.task = i /\ o.due = d /\ o.status = status
    BY <1>7 DEF Happens
  <2>2. PICK key \in S : key[2] = i
    <3>1. <<1, o.task>> \in S /\ <<1, o.task>>[2] = o.task
      BY DEF Tabled
    <3> QED
      BY <2>1, <3>1
  <2>3. PICK n \in 1 .. N : list[n] = key
    BY <1>5
  <2>4. rows[n] = OwnRow(u, week, key) /\ n \in DOMAIN rows
    BY <1>1, <2>3
  <2>5. RowIsOf(rows[n], week, key[2])
    BY <1>4, <2>4, RowShows
  <2>6. /\ rows[n].task = i /\ d \in DOMAIN rows[n].cells /\ rows[n].cells[d] = status
    BY <2>1, <2>2, <2>5 DEF RowIsOf
  <2> QED
    BY <2>4, <2>6 DEF Shows
<1> QED
  BY <1>1, <1>6, <1>7 DEF week

\* As many occurrences of a task and date have a status as reports show it.
LEMMA CellsAdd ==
  ASSUME TablesTypeOK, NEW s \in Asks, NEW ws \in Int, ws = ReportWeek(s), NEW i, NEW d, NEW status
  PROVE  Cardinality({x \in Occupied(Shares(ws), ws, ws + 6) :
                        x[2].task = i /\ x[2].due = d /\ x[2].status = status})
           = Cardinality(With(OwnReports(s), i, d, status))
<1>1. PICK N \in Nat : N = Cardinality(members)
  BY MembersListed
<1> DEFINE all == Occupied(Shares(ws), ws, ws + 6)
           A == {x \in all : x[2].task = i /\ x[2].due = d /\ x[2].status = status}
           B == With(OwnReports(s), i, d, status)
           f == [x \in A |-> OwnOf(x[1], s)]
<1>2. \A x : x \in all <=> \E k \in 1 .. N : \E o \in Week(ListActiveRegular[k], ws) : x = <<k, o>>
  BY <1>1, PartsHaving DEF Week
<1>3. ASSUME NEW y
      PROVE  y \in B <=> y \in OwnReports(s) /\ Shows(y[2].matrix.rows, i, d, status)
  BY DEF With, Shows
<1>4. ASSUME NEW k \in 1 .. N
      PROVE  OwnOf(k, s) \in B <=> Happens(Week(ListActiveRegular[k], ws), i, d, status)
  <2>1. PICK u \in members : u = ListActiveRegular[k]
    BY <1>1, MembersNumbered
  <2> DEFINE r == buildReportData(u, {}, s)
  <2>2. OwnOf(k, s) = <<u, r>> /\ <<u, r>> \in OwnReports(s)
    BY <2>1 DEF OwnOf, OwnReports
  <2>3. r.matrix = OneReport(ws, <<Share(u, ws)>>).matrix
    BY OwnReport
  <2> HIDE DEF r, B
  <2>4. OwnOf(k, s) \in B <=> Shows(r.matrix.rows, i, d, status)
    BY <1>3, <2>2
  <2> QED
    BY <2>1, <2>3, <2>4, OwnCells
<1> HIDE DEF all, B
<1>5. IsFiniteSet(A)
  <2> DEFINE week == [k \in 1 .. N |-> Week(ListActiveRegular[k], ws)]
  <2>1. \A k \in 1 .. N : IsFiniteSet(week[k])
    BY OccurrencesFinite DEF Week
  <2>2. IsFiniteSet(Parts(week, N))
    <3> HIDE DEF week
    <3> QED
      BY <2>1, PartsFinite
  <2>3. A \in SUBSET Parts(week, N)
    BY <1>2 DEF Parts
  <2> QED
    BY <2>2, <2>3, FS_Subset
<1>6. ASSUME NEW x \in A
      PROVE  \E k \in 1 .. N : \E o \in Week(ListActiveRegular[k], ws) :
               /\ x = <<k, o>> /\ x[1] = k /\ x[2] = o
               /\ o.task = i /\ o.due = d /\ o.status = status
  BY <1>2
<1>7. ASSUME NEW x \in A PROVE f[x] \in B /\ f[x] = OwnOf(x[1], s) /\ x[1] \in 1 .. N
  <2>1. PICK k \in 1 .. N : Happens(Week(ListActiveRegular[k], ws), i, d, status) /\ x[1] = k
    BY <1>6 DEF Happens
  <2>2. f[x] = OwnOf(k, s)
    BY <2>1
  <2> HIDE DEF f
  <2> QED
    BY <1>4, <2>1, <2>2
<1>8. ASSUME NEW x \in A, NEW y \in A, f[x] = f[y] PROVE x = y
  <2>1. x[1] = y[1]
    BY <1>1, <1>7, <1>8, MembersNumbered DEF OwnOf
  <2>2. PICK k \in 1 .. N : \E o \in Week(ListActiveRegular[k], ws) :
          x = <<k, o>> /\ x[1] = k /\ o.task = i /\ o.due = d
    BY <1>6
  <2>3. PICK o \in Week(ListActiveRegular[k], ws) : x = <<k, o>> /\ o.task = i /\ o.due = d
    BY <2>2
  <2>4. PICK p \in Week(ListActiveRegular[k], ws) : y = <<k, p>> /\ p.task = i /\ p.due = d
    BY <1>6, <2>1, <2>2
  <2>5. o = OccurrenceOf(ListActiveRegular[k], i, d) /\ p = OccurrenceOf(ListActiveRegular[k], i, d)
    BY <2>3, <2>4, OccurrenceKnown DEF Week
  <2> QED
    BY <2>3, <2>4, <2>5
<1>9. ASSUME NEW y \in B PROVE \E x \in A : f[x] = y
  <2>1. y \in OwnReports(s)
    BY <1>3 DEF B
  <2>2. PICK k \in 1 .. N : y = OwnOf(k, s)
    BY <1>1, <2>1, MembersNumbered DEF OwnReports, OwnOf
  <2>3. PICK o \in Week(ListActiveRegular[k], ws) : o.task = i /\ o.due = d /\ o.status = status
    BY <1>4, <2>2 DEF Happens
  <2>4. <<k, o>> \in A
    BY <1>2, <2>3
  <2>5. f[<<k, o>>] = OwnOf(k, s)
    BY <2>4
  <2> HIDE DEF f, A
  <2> QED
    BY <2>2, <2>4, <2>5
<1>10. f \in Bijection(A, B)
  <2>1. DOMAIN f = A /\ f = [x \in A |-> f[x]]
    OBVIOUS
  <2> HIDE DEF f, A
  <2> QED
    BY <1>7, <1>8, <1>9, <2>1 DEF Bijection, Injection, IsInjective, Surjection
<1> HIDE DEF f, A
<1>11. Cardinality(A) = Cardinality(B)
  BY <1>5, <1>10, FS_Bijection DEF ExistsBijection
<1> QED
  BY <1>11 DEF A, B, all

\* The rows of the matrix of all users.
LEMMA AllRowsAre ==
  ASSUME TablesTypeOK, NEW ws \in Int
  PROVE  LET all == Occupied(Shares(ws), ws, ws + 6)
             rows == buildAggregatedReportMatrix(ws, ws + 6, Shares(ws)).rows
         IN  \A n \in DOMAIN rows : \E i : rows[n] = AllRow(all, i)
<1> DEFINE all == Occupied(Shares(ws), ws, ws + 6)
           T == {x[2].task : x \in all}
           M == Cardinality(T)
           place(n) == CHOOSE x \in T : Cardinality({y \in T : TaskBefore(y, x)}) = n - 1
           list == [n \in 1 .. M |-> place(n)]
           rows == [n \in 1 .. M |-> AllRow(all, list[n])]
<1>1. M \in Nat
  <2>1. \A x \in all : x[2].task \in TaskIds
    <3> SUFFICES ASSUME NEW x \in all PROVE x[2].task \in TaskIds
      OBVIOUS
    <3>1. PICK k \in 1 .. Cardinality(members) :
            \E o \in OccurrencesBetween(ListActiveRegular[k], ws, ws + 6) : x = <<k, o>>
      BY PartsHaving
    <3>2. PICK o \in OccurrencesBetween(ListActiveRegular[k], ws, ws + 6) : x[2] = o
      BY <3>1
    <3>3. ws + 6 \in Int
      OBVIOUS
    <3> QED
      BY <3>2, <3>3, OccurrenceKnown
  <2>2. T \in SUBSET TaskIds
    BY <2>1
  <2>3. IsFiniteSet(TaskIds)
    <3>1. MaxTasks \in Int
      BY TablesAssumption
    <3> QED
      BY <3>1, FS_Interval DEF TaskIds
  <2> HIDE DEF T
  <2> QED
    BY <2>2, <2>3, FS_Subset, FS_CardinalityType
<1>2. AllTasks(all) = Listed(list)
  BY DEF AllTasks, InOrder
<1> HIDE DEF place
<1>3. list = [n \in 1 .. M |-> list[n]]
  OBVIOUS
<1> HIDE DEF list, M
<1>4. AllTasks(all) = list /\ DOMAIN list = 1 .. M
  BY <1>1, <1>2, <1>3, ListedIs
<1>5. rows = [n \in 1 .. M |-> rows[n]]
  OBVIOUS
<1>6. [n \in DOMAIN list |-> AllRow(all, list[n])] = rows
  BY <1>4
<1>7. \A n \in 1 .. M : rows[n] = AllRow(all, list[n])
  OBVIOUS
<1> HIDE DEF rows
<1>8. Listed(rows) = rows
  BY <1>1, <1>5, ListedIs
<1>9. buildAggregatedReportMatrix(ws, ws + 6, Shares(ws)).rows = rows
  <2>1. buildAggregatedReportMatrix(ws, ws + 6, Shares(ws)).rows
          = Listed([n \in DOMAIN AllTasks(all) |-> AllRow(all, AllTasks(all)[n])])
    BY MatrixParts
  <2> QED
    BY <1>4, <1>6, <1>8, <2>1
<1>10. DOMAIN rows = 1 .. M
  BY <1>5
<1> QED
  BY <1>7, <1>9, <1>10

LEMMA AllRowShows ==
  ASSUME NEW all, NEW i, NEW d \in DOMAIN AllRow(all, i).cells, NEW status \in Statuses
  PROVE  /\ AllRow(all, i).task = i
         /\ AllRow(all, i).cells[d].counts[status]
              = Cardinality({x \in all : x[2].task = i /\ x[2].due = d /\ x[2].status = status})
<1> DEFINE cells == [e \in {x[2].due : x \in {y \in all : y[2].task = i}} |->
                       [status |-> aggregateStatus(AllCounts(all, i, e)),
                        counts |-> AllCounts(all, i, e)]]
<1>1. AllRow(all, i) = [task |-> i, cells |-> cells]
  BY DEF AllRow
<1>2. \A e \in DOMAIN cells : cells[e].counts = AllCounts(all, i, e)
  OBVIOUS
<1> HIDE DEF cells
<1>3. AllRow(all, i).task = i /\ AllRow(all, i).cells = cells
  BY <1>1
<1>4. AllCounts(all, i, d)[status]
        = Cardinality({x \in all : x[2].task = i /\ x[2].due = d /\ x[2].status = status})
  BY DEF AllCounts
<1> QED
  BY <1>2, <1>3, <1>4

LEMMA AllAddUp == TablesTypeOK => ReportsAddUp
<1> SUFFICES ASSUME TablesTypeOK, NEW s \in {NoWeek, OnDate(today - 7)}, Cardinality(members) > 1
             PROVE  AddsUp(buildReportData(Administrator, {}, s), OwnReports(s))
  BY DEF ReportsAddUp, OwnReports
<1>1. s \in Asks
  BY RowsAndDates DEF Asks
<1>2. PICK ws \in Int : ws = ReportWeek(s)
  BY <1>1, ReportWeeks
<1> DEFINE all == buildReportData(Administrator, {}, s)
           reports == OwnReports(s)
           occupied == Occupied(Shares(ws), ws, ws + 6)
<1>3. /\ all.matrix.done = SumFunction([x \in reports |-> x[2].matrix.done])
      /\ all.matrix.due = SumFunction([x \in reports |-> x[2].matrix.due])
  BY <1>1, TotalsAdd
<1>4. ASSUME NEW n \in DOMAIN all.bars
      PROVE  /\ all.bars[n].total = SumFunction([x \in reports |-> x[2].bars[n].total])
             /\ all.bars[n].completed = SumFunction([x \in reports |-> x[2].bars[n].completed])
  BY <1>1, BarsAdd
<1>5. all.matrix = buildAggregatedReportMatrix(ws, ws + 6, Shares(ws))
  BY <1>1, <1>2, AllReport
<1>6. \A n \in DOMAIN all.matrix.rows : \E i : all.matrix.rows[n] = AllRow(occupied, i)
  BY <1>5, AllRowsAre
<1> HIDE DEF all, reports, occupied
<1>7. ASSUME NEW n \in DOMAIN all.matrix.rows,
             NEW d \in DOMAIN all.matrix.rows[n].cells, NEW status \in Statuses
      PROVE  all.matrix.rows[n].cells[d].counts[status]
               = Cardinality(With(reports, all.matrix.rows[n].task, d, status))
  <2>1. PICK i : all.matrix.rows[n] = AllRow(occupied, i)
    BY <1>6
  <2>2. /\ AllRow(occupied, i).task = i
        /\ AllRow(occupied, i).cells[d].counts[status]
             = Cardinality({x \in occupied : x[2].task = i /\ x[2].due = d /\ x[2].status = status})
    BY <2>1, AllRowShows
  <2>3. Cardinality({x \in occupied : x[2].task = i /\ x[2].due = d /\ x[2].status = status})
          = Cardinality(With(reports, i, d, status))
    BY <1>1, <1>2, CellsAdd DEF occupied, reports
  <2> QED
    BY <2>1, <2>2, <2>3
<1>8. AddsUp(all, reports)
  BY <1>3, <1>4, <1>7 DEF AddsUp
<1> QED
  BY <1>8 DEF all, reports

\* What an administrator sees of all users adds up to what the report of each of
\* them shows, in the totals, in every bar and in every cell, however many users
\* and tasks there are (buildAggregatedReportMatrix, aggregateReportBarsForDisplay).
THEOREM ReportsSumUp == TrackerSpec => []ReportsAddUp
BY AllAddUp, TrackerTablesCorrect, PTL
==============================================================================
