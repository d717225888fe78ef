---------------------------- MODULE Leaderboard ----------------------------
(***************************************************************************)
(* handlers/leaderboard.go: the regular users ranked by what they have     *)
(* completed in a week or a month, and by their longest streak in it.      *)
(***************************************************************************)
EXTENDS Reports

\* date: the selected one, NULL if the parameter is missing or malformed.
parseLeaderboardPeriod(kind, date, startDay) ==
  LET selected == IF date = NULL THEN today ELSE date
      start    == IF kind = "month" THEN MonthStart(selected)
                  ELSE WeekStartFor(selected, startDay)
      end      == IF kind = "month" THEN MonthEnd(selected) ELSE start + 6
  IN  [kind       |-> kind,
       start      |-> start,
       end        |-> end,
       countUntil |-> Earlier(end, today),
       prev       |-> IF kind = "month" THEN FirstOf(MonthOf(start) - 1) ELSE start - 7,
       next       |-> IF kind = "month" THEN FirstOf(MonthOf(start) + 1) ELSE start + 7]

\* Mutation: a run that reaches the last day is not looked at.
BestStreakEnded(start, end, occs) ==
  LET last == Earlier(end, today)
      Perfect(d) == LET due == {o \in occs : o.due = d}
                    IN  due # {} /\ \A o \in due : IsCompleted(o)
      best[d \in Int] ==
        [current \in Nat |-> IF d > last THEN 0
                             ELSE IF Perfect(d) THEN best[d + 1][current + 1]
                             ELSE Later(current, best[d + 1][0])]
  IN  best[start][0]

\* The longest run of days on which something was due and all of it completed;
\* current is the length of the run that ends on the day before d.
bestLeaderboardStreak(start, end, occs) ==
  LET last == Earlier(end, today)
      Perfect(d) == LET due == {o \in occs : o.due = d}
                    IN  due # {} /\ \A o \in due : IsCompleted(o)
      best[d \in Int] ==
        [current \in Nat |-> IF d > last THEN current
                             ELSE IF Perfect(d) THEN best[d + 1][current + 1]
                             ELSE Later(current, best[d + 1][0])]
  IN  best[start][0]

leaderboardRowFromOccurrences(u, occs, start, end) ==
  LET counted == {o \in occs : /\ o.due \in start .. end /\ o.due <= today
                               /\ o.status # "exempt"}
      done    == Cardinality({o \in counted : IsCompleted(o)})
  IN  [user       |-> u,
       completed  |-> done,
       due        |-> Cardinality(counted),
       percent    |-> percent(done, Cardinality(counted)),
       bestStreak |-> bestLeaderboardStreak(start, end, counted)]

\* Names that differ in case only are equal in lower case: neither is less.
leaderboardTieLess(a, b) ==
  \/ a.percent > b.percent
  \/ /\ a.percent = b.percent
     /\ IF Name[a.user] # Name[b.user] THEN ToLower(Name[a.user]) < ToLower(Name[b.user])
        ELSE a.user < b.user

CompletedBefore(a, b) ==
  \/ a.completed > b.completed
  \/ a.completed = b.completed /\ leaderboardTieLess(a, b)

StreakBefore(a, b) ==
  \/ a.bestStreak > b.bestStreak
  \/ a.bestStreak = b.bestStreak /\ CompletedBefore(a, b)

CompletedScore(r) == <<r.completed, r.percent>>
StreakScore(r)    == <<r.bestStreak, r.completed, r.percent>>

\* Mutation: every row has the rank of its place.
RankByPlace(rows, scores) ==
  Listed([n \in DOMAIN rows |-> [rank |-> n, row |-> rows[n]]])

\* A row shares the rank of the one above it if their scores are the same.
assignLeaderboardRanks(rows, scores) ==
  LET rank[n \in DOMAIN rows] ==
        IF n > 1 /\ scores[n] = scores[n - 1] THEN rank[n - 1] ELSE n
  IN  Listed([n \in DOMAIN rows |-> [rank |-> rank[n], row |-> rows[n]]])

\* The sort is stable: equal rows keep the order of the list.
Ranking(rows, Less(_, _), Score(_)) ==
  LET order  == InOrder(DOMAIN rows,
                        LAMBDA m, n : \/ Less(rows[m], rows[n])
                                      \/ ~Less(rows[n], rows[m]) /\ m < n)
      sorted == Listed([n \in DOMAIN order |-> rows[order[n]]])
  IN  assignLeaderboardRanks(sorted, Listed([n \in DOMAIN sorted |-> Score(sorted[n])]))

primaryRows(rows) == Ranking(rows, CompletedBefore, CompletedScore)
streakRows(rows)  == Ranking(rows, StreakBefore, StreakScore)

leaderboardSummary(rows) ==
  [completed |-> SumFunction([k \in DOMAIN rows |-> rows[k].completed]),
   due       |-> SumFunction([k \in DOMAIN rows |-> rows[k].due])]

Rankings(rows) ==
  [primary |-> primaryRows(rows), streak |-> streakRows(rows),
   summary |-> leaderboardSummary(rows)]

\* sets: as in Reports, one for each user.
buildLeaderboardRows(sets, start, end) ==
  Rankings(Listed([k \in DOMAIN sets |->
             leaderboardRowFromOccurrences(sets[k].user, sets[k].occs, start, end)]))

OverPeriod(period, board) ==
  [period |-> period, primary |-> board.primary, streak |-> board.streak,
   summary |-> board.summary]

buildLeaderboard(kind, date) ==
  LET period == parseLeaderboardPeriod(kind, date, AppSettings.weekStart)
  IN  OverPeriod(period,
                 buildLeaderboardRows(SetsOf(ListActiveRegular, period.start, period.countUntil),
                                      period.start, period.countUntil))
=============================================================================
