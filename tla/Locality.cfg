SPECIFICATION Spec
CONSTANTS
  N = 4
  NetNum = {2, 5, 9}
CHECK_DEADLOCK FALSE
INVARIANT ScanInBounds
INVARIANT SplitByNode
