CONSTANTS
  MAX_OPEN_DEVICES = 2
  SECTOR = 512
  MAX_SECTORS = 255
  Size = 8
  Counts = {0}
  Offsets = {0}
  SUPERBLOCK_SIZE = 136
  Formatted = {0}
  MaxInode = 1
  inodes_per_group = 8192
  blocks_per_group = 32768
  block_size = 4096
  inode_size = 256
SPECIFICATION Ext4Spec
INVARIANT FormattedDriveMounts
CHECK_DEADLOCK FALSE
