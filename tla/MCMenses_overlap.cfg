SPECIFICATION Spec
CONSTANTS
  NULL = NULL
  Users = {u1}
  Procs = {p1, p2}
  LastDate = 2
  MaxPeriods = 2
INVARIANT OneRecordPerDay
\* once every account is removed there is nobody left to ask anything
CHECK_DEADLOCK FALSE
