SPECIFICATION Spec
CONSTANTS
  Payload = {p1, p2}
  Garbage = garbage
  MaxLen = 3
CHECK_DEADLOCK FALSE
INVARIANT Consistent
PROPERTY ImplementsStack
