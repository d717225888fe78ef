SPECIFICATION Spec
CONSTANTS
  NULL = NULL
  Procs = {p1, p2}
  Ops = {"login", "changePassword"}
  Seeded = 1
  MaxUsers = 1
  MaxSessions = 2
  MaxTokens = 0
  MaxClock = 1
SYMMETRY Symmetric
INVARIANT OpenedWithCurrentPassword
