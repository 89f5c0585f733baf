SPECIFICATION MkSpec
CONSTANTS
  Driver = {d1}
  Reader = {r1, r2}
  IndexBound = 4
  NameBound = 0
  Setups <- MCSeries
  None = None
CHECK_DEADLOCK FALSE
INVARIANT OnlyLastRowMayBeCut
INVARIANT SeriesTabulated
PROPERTY TablesKept
SYMMETRY ReaderSymmetry
