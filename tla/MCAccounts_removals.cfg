SPECIFICATION Spec
CONSTANTS
  NULL = NULL
  Procs = {p1, p2}
  Ops = {"login", "update", "delete"}
  Seeded = 2
  MaxUsers = 2
  MaxSessions = 1
  MaxTokens = 0
  MaxClock = 1
SYMMETRY Symmetric
PROPERTY LastAdminOnlyOvertaken
PROPERTY NoSelfRemoval
