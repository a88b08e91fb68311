CONSTANTS
  MAX_OPEN_DEVICES = 2
  SECTOR = 2
  MAX_SECTORS = 2
  Size = 2
  Counts = {1, 3}
  Offsets = {2}
  SUPERBLOCK_SIZE = 3
  Formatted = {0}
  MaxInode = 9
  inodes_per_group = 4
  blocks_per_group = 8
  block_size = 4
  inode_size = 2
SPECIFICATION Ext4Spec
INVARIANTS OnlyDetectedDrivesAreWritten 
PROPERTY WriteStaysInRange
