SPECIFICATION FairSpec
CONSTANTS
  Driver = {d1, d2}
  IndexBound = 4
  NameBound = 2
  Setups <- MCSetups
  None = None
CHECK_DEADLOCK FALSE
INVARIANT OwnDirectory
INVARIANT SizesGrowToMax
INVARIANT SeriesInOrder
PROPERTY SeriesEnds
