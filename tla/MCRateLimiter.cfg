SPECIFICATION FairSpec
CONSTANTS
  NULL = NULL
  Keys = {k1, k2}
  Burst = 2
  RefillPer = 2
  Every = 3
  Idle = 4
  Wait = 1
  Span = 4
INVARIANT LimiterTypeOK
INVARIANT BudgetKept
PROPERTY ImplementsMeter
PROPERTY ClientsForgotten
