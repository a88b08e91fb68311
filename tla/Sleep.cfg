CONSTANTS
  KB_BUFFER_SIZE = 3
  MS_PER_TICK = 10
  WORD = 64
  Durations = {20}
  MaxKeys = 1
SPECIFICATION FairSpec
PROPERTY SleepReturns
CHECK_DEADLOCK FALSE
