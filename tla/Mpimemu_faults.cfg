SPECIFICATION Spec
CONSTANTS
  N = 3
  Placement <- AllPlacements
  CommandLine <- OneSample
  MayFail <- AnyFault
CHECK_DEADLOCK FALSE
INVARIANT SuccessIsUnanimous
INVARIANT ReportCoversJob
PROPERTY StepsRunOut
