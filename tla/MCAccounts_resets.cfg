SPECIFICATION Spec
CONSTANTS
  NULL = NULL
  Procs = {p1, p2}
  Ops = {"login", "forgot", "reset"}
  Seeded = 2
  MaxUsers = 2
  MaxSessions = 1
  MaxTokens = 2
  MaxClock = 2
SYMMETRY Symmetric
INVARIANTS TokenSpentOnce OldSessionsRevoked
