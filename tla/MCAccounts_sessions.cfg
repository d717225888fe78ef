SPECIFICATION Spec
CONSTANTS
  NULL = NULL
  Procs = {p1, p2}
  Ops = {"login", "logout", "impersonate", "unimpersonate"}
  Seeded = 2
  MaxUsers = 2
  MaxSessions = 3
  MaxTokens = 0
  MaxClock = 0
SYMMETRY Symmetric
INVARIANT PrincipalKept
