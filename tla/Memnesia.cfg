SPECIFICATION RepFairSpec
CONSTANTS
  N = 2
  Programs <- MCPrograms
  AppGrowth <- MCAppGrowth
  LibGrowth <- MCLibGrowth
CHECK_DEADLOCK FALSE
INVARIANT NeverStuck
INVARIANT CollectivesAgree
INVARIANT ChargedToMpi
INVARIANT AggregateIsSum
INVARIANT WhoIsRank
PROPERTY ImplementsReport
PROPERTY ReportIsWritten
PROPERTY StepsRunOut
