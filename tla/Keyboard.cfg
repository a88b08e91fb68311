CONSTANTS
  KB_BUFFER_SIZE = 3
  MS_PER_TICK = 3
  WORD = 4
  Durations = {0, 2}
  MaxKeys = 5
SPECIFICATION FairSpec
INVARIANT ShiftIsHeld
PROPERTIES
  ImplementsCharQueue
  CharIsDelivered
  BlockedReaderWakes
CHECK_DEADLOCK FALSE
