SPECIFICATION Spec
CONSTANTS
  NULL = NULL
  Procs = {p1}
  Ops = {"login", "logout", "impersonate", "unimpersonate", "create", "update", "delete", "changePassword", "forgot", "reset"}
  Seeded = 2
  MaxUsers = 2
  MaxSessions = 2
  MaxTokens = 1
  MaxClock = 1
INVARIANTS TypeOK OldSessionsRevoked
