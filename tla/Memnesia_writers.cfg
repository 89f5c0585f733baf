SPECIFICATION RepSpec
CONSTANTS
  N = 2
  Programs <- ThreadPrograms
  AppGrowth <- One
  LibGrowth <- One
CHECK_DEADLOCK FALSE
INVARIANT OneWriter
