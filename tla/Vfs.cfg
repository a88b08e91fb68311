CONSTANTS
  f = f
  m = m
  Root = Root
  NULL = NULL
  Names <- MCNames
  Files <- MCFiles
  Length <- MCLength
  Slots = {s1}
  MAX_FILE_DESCRIPTORS = 3
  FIRST_FD = 1
  ReadSizes = {1, 3}
  Offsets <- MCOffsets
  MaxPosition = 3
SPECIFICATION Spec
INVARIANT MountsResolve
 
CHECK_DEADLOCK FALSE
