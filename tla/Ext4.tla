-------------------------------- MODULE Ext4 --------------------------------
(***************************************************************************)
(* What ext4.c makes of a device: ext4_mount with ext4_read_superblock on  *)
(* top of the device files, and where ext4_read_inode and ext4_write_inode *)
(* look for an inode.                                                      *)
(***************************************************************************)
EXTENDS Device

CONSTANTS
  SUPERBLOCK_SIZE,     \* sizeof(ext4_superblock_t)
  Formatted,           \* the drives that carry a valid superblock
  MaxInode,            \* bound of the model: inode numbers
  inodes_per_group, blocks_per_group, block_size, inode_size

VARIABLE mounted   \* the last mount: the drive, and what ext4_mount made of it

ext4_vars == <<vars, mounted>>

Ext4Init ==
  /\ Init
  /\ mounted = [drive |-> Closed, result |-> "none"]

(* ext4_read_superblock on a device that cannot be opened makes one up.     *)
CanOpen(m) == m \in exists /\ FreeFds # {}

ext4_mount_without_device(m) ==
  /\ Registered /\ ~CanOpen(m)
  /\ mounted' = [drive |-> m, result |-> "made up"]
  /\ UNCHANGED vars

(* On a device: open, seek, read, close.  The descriptor is free again at   *)
(* the end; the read's result must be the size of the superblock.  The      *)
(* drive is taken to answer.                                                *)
ext4_mount(m) ==
  /\ Registered /\ CanOpen(m)
  /\ mounted' = [drive |-> m,
                 result |-> IF SectorCount(SUPERBLOCK_SIZE) = SUPERBLOCK_SIZE /\ m \in Formatted
                            THEN "mounted" ELSE "failed"]
  /\ UNCHANGED vars

Ext4Next ==
  \/ Next /\ UNCHANGED mounted
  \/ \E m \in Drives : ext4_mount(m) \/ ext4_mount_without_device(m)

Ext4Spec == Ext4Init /\ [][Ext4Next]_ext4_vars

-----------------------------------------------------------------------------
(* The block and the byte in it, as ext4_read_inode and ext4_write_inode    *)
(* compute them.  No descriptor is kept in a mounted file system (device_fd *)
(* stays -1), so the transfers themselves fail; what remains is where they  *)
(* would go.                                                                *)
ext4_inode_block_group(i) == (i - 1) \div inodes_per_group
ext4_inode_index(i) == (i - 1) % inodes_per_group

InTable(i) == <<(ext4_inode_index(i) * inode_size) \div block_size,
                (ext4_inode_index(i) * inode_size) % block_size>>

ext4_read_inode(i) ==
  <<2 + 1 + ext4_inode_block_group(i) * blocks_per_group + 3 + InTable(i)[1], InTable(i)[2]>>

ext4_write_inode_in_first_group(i) == <<5 + InTable(i)[1], InTable(i)[2]>>

ext4_write_inode(i) ==
  <<5 + ext4_inode_block_group(i) * blocks_per_group + InTable(i)[1], InTable(i)[2]>>

-----------------------------------------------------------------------------
Apart(a, b) == a[1] # b[1] \/ a[2] + inode_size <= b[2] \/ b[2] + inode_size <= a[2]

(* In the file system that is mounted, no two inodes share a byte, neither  *)
(* where ext4_read_inode looks for them nor where ext4_write_inode puts     *)
(* them, at the edges of blocks and of block groups too.                    *)
InodesAreApart ==
  mounted.result \in {"mounted", "made up"} =>
    \A i, j \in 1 .. MaxInode : i < j =>
      /\ Apart(ext4_read_inode(i), ext4_read_inode(j))
      /\ Apart(ext4_write_inode(i), ext4_write_inode(j))

(* ext4.h:83, "Mount EXT4 filesystem from device": a drive that is there    *)
(* and carries an ext4 superblock is mounted.                               *)
FormattedDriveMounts ==
  mounted.drive \in exists \cap Formatted => mounted.result = "mounted"
=============================================================================
