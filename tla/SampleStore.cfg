SPECIFICATION Spec
CONSTANTS
  UllongMax = 3
  Iters = 2
  SelfKey <- MCSelfKey
  NodeKey <- MCNodeKey
  Other = Other
  NoColon = NoColon
  NoDigits = NoDigits
  StatusFiles <- MCStatusFiles
  MeminfoFiles <- MCMeminfoFiles
CHECK_DEADLOCK FALSE
INVARIANT TypeOK
PROPERTY NoArrayGrows
PROPERTY ImplementsLog
