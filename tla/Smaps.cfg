SPECIFICATION SamplerSpec
CONSTANTS
  Tallied <- MCTallied
  Other = "THPeligible"
  Files <- MCFiles
CHECK_DEADLOCK FALSE
INVARIANT TallyIsSum
