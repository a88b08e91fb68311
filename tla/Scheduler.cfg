CONSTANTS
  a = a
  b = b
  c = c
  d = d
  Procs <- MCProcs
  MAX_PROCESSES = 3
  NoProcess = NoProcess
SPECIFICATION FairSpec
INVARIANT IndexInQueue
 
CHECK_DEADLOCK FALSE
