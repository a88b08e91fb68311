------------------------------- MODULE Device -------------------------------
(***************************************************************************)
(* Device files: the descriptor table of driver.c and the ATA driver       *)
(* (ata.c), the only one that is registered.  The kernel runs one call at  *)
(* a time, so a call is one step; the drive may stop answering after any   *)
(* sector of a transfer.  Positions are bytes, SECTOR of them a sector.    *)
(***************************************************************************)
EXTENDS Integers, FiniteSets

CONSTANTS
  MAX_OPEN_DEVICES,   \* entries of device_fds
  SECTOR,             \* 512
  MAX_SECTORS,        \* 255: sectors of one transfer
  Size,               \* sectors of a drive
  Counts,             \* byte counts callers pass
  Offsets             \* offsets callers seek to

ASSUME DeviceAssumption ==
  /\ {MAX_OPEN_DEVICES, SECTOR, MAX_SECTORS, Size} \subseteq Nat \ {0}
  /\ Counts \subseteq Nat /\ Offsets \subseteq Nat

Drives == 0 .. 3          \* primary master and slave, secondary master and slave
Fds == 0 .. MAX_OPEN_DEVICES - 1
Sectors == 0 .. Size - 1
Closed == -1

VARIABLES
  exists,       \* drives[i].exists
  probed,       \* how many drives ata_driver_init has identified
  minor,        \* device_fds[fd].minor, or Closed where driver is NULL
  position,     \* device_fds[fd].position
  disk          \* the drives' sectors: 1 where something was written

vars == <<exists, probed, minor, position, disk>>

TypeOK ==
  /\ exists \subseteq Drives
  /\ probed \in 0 .. 4
  /\ minor \in [Fds -> Drives \cup {Closed}]
  /\ position \in [Fds -> Nat]
  /\ disk \in [Drives -> [Sectors -> {0, 1}]]

(* driver_init, then driver_register up to the driver's init.               *)
Init ==
  /\ exists = {} /\ probed = 0
  /\ minor = [fd \in Fds |-> Closed]
  /\ position = [fd \in Fds |-> 0]
  /\ disk = [d \in Drives |-> [s \in Sectors |-> 0]]

(* ata_identify of the next drive: it is there and answers, or it is not.   *)
ata_identify(found) ==
  /\ probed < 4
  /\ probed' = probed + 1
  /\ exists' = IF found THEN exists \cup {probed} ELSE exists
  /\ UNCHANGED <<minor, position, disk>>

Registered == probed = 4

-----------------------------------------------------------------------------
(* alloc_device_fd: the lowest free descriptor.                             *)
FreeFds == {fd \in Fds : minor[fd] = Closed}

alloc_device_fd(fd) == fd \in FreeFds /\ \A other \in FreeFds : fd <= other

(* dev_open of ata<m>: refused when the drive does not exist, or when no    *)
(* descriptor is free.                                                      *)
dev_open(m) ==
  /\ Registered
  /\ m \in exists
  /\ \E fd \in Fds :
       /\ alloc_device_fd(fd)
       /\ minor' = [minor EXCEPT ![fd] = m]
       /\ position' = [position EXCEPT ![fd] = 0]
  /\ UNCHANGED <<exists, probed, disk>>

dev_close(fd) ==
  /\ minor[fd] # Closed
  /\ minor' = [minor EXCEPT ![fd] = Closed]
  /\ position' = [position EXCEPT ![fd] = 0]
  /\ UNCHANGED <<exists, probed, disk>>

-----------------------------------------------------------------------------
(* ata_driver_read and _write: the first sector and the number of sectors   *)
(* of a transfer of count bytes at a position.                              *)
FirstSector_ignoring_position(pos) == 0

FirstSector(pos) == pos \div SECTOR
SectorCount(count) ==
  LET n == (count + SECTOR - 1) \div SECTOR
  IN IF n > MAX_SECTORS THEN MAX_SECTORS ELSE n

(* The unit ata_select_drive addresses for a minor number: the channel by   *)
(* its port base, the drive on it by the slave bit.                         *)
Unit_ignoring_slave(m) == 2 * (IF m < 2 THEN 0 ELSE 1)

Unit(m) == 2 * (IF m < 2 THEN 0 ELSE 1) + (m % 2)

(* How many of n sectors from lba on the drive may serve before it fails:   *)
(* any number, none behind its end.                                         *)
Served(lba, n) == {k \in 0 .. n : lba + k <= Size \/ k = 0}

(* dev_read: what the driver returns, its number of sectors, is added to    *)
(* the position; a transfer that fails on the way leaves the position.      *)
dev_read(fd, count) ==
  LET n == SectorCount(count)
  IN /\ minor[fd] # Closed
     /\ n \in Served(FirstSector(position[fd]), n)
     /\ position' = [position EXCEPT ![fd] = @ + n]
     /\ UNCHANGED <<exists, probed, minor, disk>>

(* ata_write_sectors: k sectors reach the drive; all of them, or the call   *)
(* fails.                                                                   *)
Written(m, lba, k) ==
  [disk EXCEPT ![Unit(m)] = [s \in Sectors |-> IF s \in lba .. lba + k - 1 THEN 1 ELSE @[s]]]

dev_write(fd, count) ==
  LET n == SectorCount(count)
      lba == FirstSector(position[fd])
  IN /\ minor[fd] # Closed
     /\ \E k \in Served(lba, n) :
          /\ disk' = Written(minor[fd], lba, k)
          /\ position' = [position EXCEPT ![fd] = IF k = n THEN @ + n ELSE @]
     /\ UNCHANGED <<exists, probed, minor>>

(* dev_seek with SEEK_SET and SEEK_CUR; SEEK_END is refused.                *)
dev_seek(fd, offset, from) ==
  /\ minor[fd] # Closed
  /\ position' = [position EXCEPT ![fd] = IF from = "SEEK_SET" THEN offset ELSE @ + offset]
  /\ UNCHANGED <<exists, probed, minor, disk>>

Next ==
  \/ \E found \in BOOLEAN : ata_identify(found)
  \/ \E m \in Drives : dev_open(m)
  \/ \E fd \in Fds :
       \/ dev_close(fd)
       \/ \E count \in Counts : dev_read(fd, count) \/ dev_write(fd, count)
       \/ \E offset \in Offsets, from \in {"SEEK_SET", "SEEK_CUR"} :
            /\ position[fd] + offset <= Size * SECTOR    \* bound of the model
            /\ dev_seek(fd, offset, from)

Spec == Init /\ [][Next]_vars

-----------------------------------------------------------------------------
(* Only drives that exist are ever written: whatever a transfer does, it    *)
(* goes to the drive that was opened and to no other on its channel.        *)
OnlyDetectedDrivesAreWritten ==
  \A d \in Drives : (\E s \in Sectors : disk[d][s] = 1) => d \in exists

(* A write, complete or broken off, changes sectors of one drive only, and  *)
(* none before the one its position lies in.                                *)
WriteStaysInRange ==
  [][disk' # disk =>
       \E fd \in Fds :
         /\ minor[fd] # Closed
         /\ \A d \in Drives \ {minor[fd]} : disk'[d] = disk[d]
         /\ \A s \in Sectors : s < position[fd] \div SECTOR
                                => disk'[minor[fd]][s] = disk[minor[fd]][s]]_vars
=============================================================================
