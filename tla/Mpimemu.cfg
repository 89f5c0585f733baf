SPECIFICATION FairSpec
CONSTANTS
  N = 4
  Placement <- FourRanks
  CommandLine <- TwoSamples
  MayFail <- NoFault
CHECK_DEADLOCK FALSE
INVARIANT TypeOK
INVARIANT CollectivesMatch
INVARIANT NothingAfterFree
INVARIANT MessagesFit
INVARIANT PpnGate
INVARIANT LockstepSampling
INVARIANT ExitTellsOutcome
INVARIANT NeverStuck
PROPERTY JobEnds
