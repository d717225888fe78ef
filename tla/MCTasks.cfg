SPECIFICATION MCSpec
CONSTANTS
  NULL = NULL
  Users = {1}
  MaxTasks = 4
  MaxPeriods = 1
  MaxAsked = 2
  Procs = {1, 2}
  Days <- MCDays
  Back = 1
  Ahead = 0
  Forms <- MCForms
  Catalogs <- MCCatalogs
INVARIANT TasksTypeOK
INVARIANT AnswerShowsToggle
INVARIANT MoveExchanges
PROPERTY ImplementsTracker
PROPERTY RequestsAnswered
CHECK_DEADLOCK FALSE
