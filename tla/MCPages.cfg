SPECIFICATION MCSpec
CONSTANTS
  NULL = NULL
  Users = {1, 2}
  Administrator = 9
  Name <- MCName
  MaxTasks = 3
  MaxPeriods = 2
  Days <- MCDays
  Back = 1
  Ahead = 1
  Forms <- MCForms
  Catalogs <- MCCatalogs
INVARIANT TablesTypeOK
INVARIANT OccurrencesMatchSchedule
INVARIANT BarsPartitionMonth
INVARIANT ReportsAddUp
INVARIANT PagesAgree
INVARIANT StreaksAgree
INVARIANT RanksFair
INVARIANT GridShowsMonth
INVARIANT WeekPickerAgrees
INVARIANT FragmentsMatchReload
