CONSTANTS
  MAX_FILES = 2
  MaxEntries = 3
  Letters = {"x"}
  MaxPath = 4
  MountPaths <- MCMountPaths
  MAX_COMPONENT = 2
SPECIFICATION Spec
INVARIANTS
  LookedUpInItsMount
  
  
CHECK_DEADLOCK FALSE
