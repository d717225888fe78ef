SPECIFICATION MCSpec
CONSTANTS
  NULL = NULL
  Users = {u1, u2}
  Procs = {p1, p2}
  LastDate = 3
  MaxPeriods = 2
SYMMETRY Symmetric
INVARIANT MensesTypeOK
PROPERTY OverlapsOnlyRaced
PROPERTY OwnRecordsOnly
PROPERTY PeriodsImplementTracker
\* once every account is removed there is nobody left to ask anything
CHECK_DEADLOCK FALSE
