CONSTANTS
  MaxPid = 4
  Codes <- MCCodes
  NoProcess = NoProcess
  MAX_FRAMES = 17
  KERNEL_FRAMES = 8
  HeapPages <- MCHeapPages
  PD_ENTRIES = 4
  PT_ENTRIES = 8
  IDENTITY = 2
  KERNEL_ENTRIES = 3
  FORK_SHARED = 2
  StackEntry = 3
  STACK_PAGES = 2
SPECIFICATION SpaceSpec
INVARIANTS
  RunningIsCurrent BlockedHasLivingChild NoZombieParent
  KernelStaysMapped SpacesArePrivate
PROPERTIES
  ZombieIsFinal ForkMapsTheSamePages
CHECK_DEADLOCK FALSE
