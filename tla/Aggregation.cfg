\* After an overflow the other processes wait for ever for the one that is gone.
CHECK_DEADLOCK FALSE
CONSTANTS
  N = 4
  Placement <- EvenPlacements
  SampleType <- Types
  Iters = 2
  Bits = 3
  Value <- Values
SPECIFICATION Spec
INVARIANT ReportIsOfRealSamples
INVARIANT OverflowDetected
