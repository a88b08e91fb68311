-------------------------- MODULE InstallerProofs --------------------------
(***************************************************************************)
(* Proofs for module Installer: what the order of the steps guarantees,    *)
(* for disks and partitions of any size and any number of files, and       *)
(* whichever calls fail.                                                   *)
(***************************************************************************)
EXTENDS Installer, TLAPS

Confirmed == {"continue", "confirm"}
Partitioned == {"FORMAT", "INSTALL_FILES", "INSTALL_GRUB", "COMPLETE"}

(* The answers that led to the step.                                        *)
AnswersInv ==
  /\ step = "DISK_SELECT" => answers = {"continue"}
  /\ step \in {"PARTITION"} \cup Partitioned => answers = Confirmed

(* What has been done by the time a step, or a part of it, is reached.      *)
ProgressInv ==
  /\ mbr = [signature |-> mbr.signature, entries |-> mbr.entries]
  /\ mbr.entries = [p \in Partitions |-> mbr.entries[p]]
  /\ next_file \in Int
  /\ step = "PARTITION" /\ phase = "root" => mbr.entries[1] # Unused
  /\ step \in Partitioned => mbr.entries[1] # Unused /\ mbr.entries[2] # Unused
  /\ step = "FORMAT" /\ phase = "root" => 1 \in formatted
  /\ step \in Partitioned \ {"FORMAT"} => 1 \in formatted /\ 2 \in formatted
  /\ step = "INSTALL_FILES" /\ phase # "begin" => mounted
  /\ step \in {"INSTALL_GRUB", "COMPLETE"} => mounted /\ next_file > REQUIRED

LEMMA AnswersInit == InstallerInit(FoundMbrs) => AnswersInv
  BY DEF InstallerInit, AnswersInv, Partitioned

LEMMA AnswersStep ==
  ASSUME AnswersInv, [InstallerNext]_installer_vars
  PROVE  AnswersInv'
<1> USE DEF AnswersInv, Partitioned, Confirmed, Goto, Retry
<1>1. CASE \E ok \in BOOLEAN : welcome(ok)
  BY <1>1 DEF welcome
<1>2. CASE \E ok \in BOOLEAN : disk_select(ok)
  BY <1>2 DEF disk_select
<1>3. CASE \E ok \in BOOLEAN : create_partition_table(ok) \/ create_boot(ok) \/ create_root(ok)
  BY <1>3 DEF create_partition_table, create_boot, create_root
<1>4. CASE \E ok \in BOOLEAN : format_boot(ok) \/ format_root(ok) \/ mount_root(ok)
  BY <1>4 DEF format_boot, format_root, mount_root
<1>5. CASE \/ \E ok \in BOOLEAN : copy_open_src(ok) \/ copy_open_dst(ok)
           \/ \E end \in {"end of file", "read fails", "write fails"} : copy_data(end)
  BY <1>5 DEF copy_open_src, copy_open_dst, copy_data, CopyReturns
<1>6. CASE files_done \/ complete \/ \E ok \in BOOLEAN : install_grub(ok)
  BY <1>6 DEF files_done, complete, install_grub
<1>7. CASE UNCHANGED installer_vars
  BY <1>7 DEF installer_vars
<1> QED BY <1>1, <1>2, <1>3, <1>4, <1>5, <1>6, <1>7 DEF InstallerNext, Call

(* Only the steps of partition_disk write the table.                        *)
LEMMA WritesWhenPartitioning ==
  ASSUME [InstallerNext]_installer_vars, mbr' # mbr
  PROVE  step = "PARTITION"
  BY DEF InstallerNext, Call, installer_vars, welcome, disk_select, create_partition_table,
         create_boot, create_root, format_boot, format_root, mount_root, copy_open_src,
         copy_open_dst, copy_data, files_done, install_grub, complete

(* The disk is written only after both questions of this round were         *)
(* answered with yes.                                                       *)
THEOREM ConfirmedFirst == InstallerSpec => ErasedOnlyWhenConfirmed
<1>1. AnswersInv /\ [InstallerNext]_installer_vars
        => [mbr' # mbr => answers = {"continue", "confirm"}]_installer_vars
  BY WritesWhenPartitioning DEF AnswersInv, Confirmed
<1> QED BY <1>1, AnswersInit, AnswersStep, PTL DEF InstallerSpec, ErasedOnlyWhenConfirmed

-----------------------------------------------------------------------------
LEMMA ProgressInit == InstallerInit(FoundMbrs) => ProgressInv
  BY DEF InstallerInit, FoundMbrs, ProgressInv, Partitioned, Unused, Partitions

(* A partition that create_partition has written is no unused entry, since  *)
(* the boot partition has a size and the root partition a start.            *)
LEMMA CreatedIsUsed ==
  ASSUME ProgressInv, NEW n \in Partitions, NEW start, NEW size, NEW answer,
         size # 0 \/ start # 0, create_partition(n, start, size, answer)
  PROVE  /\ mbr' = [signature |-> mbr'.signature, entries |-> mbr'.entries]
         /\ mbr'.entries = [p \in Partitions |-> mbr'.entries[p]]
         /\ mbr'.entries[n] # Unused
         /\ \A p \in Partitions \ {n} : mbr'.entries[p] = mbr.entries[p]
<1> DEFINE first == StartSector(n, start)
           entry == [start |-> first, size |-> NumSectors(first, size, answer)]
<1>1. mbr' = [mbr EXCEPT !.entries[n] = entry]
  BY DEF create_partition
<1>2. entry # Unused
  BY DEF StartSector, NumSectors, Unused
<1> HIDE DEF entry
<1>3. /\ mbr' = [signature |-> mbr.signature, entries |-> [mbr.entries EXCEPT ![n] = entry]]
  BY <1>1 DEF ProgressInv
<1> QED BY <1>2, <1>3 DEF ProgressInv

LEMMA ProgressStep ==
  ASSUME ProgressInv, [InstallerNext]_installer_vars
  PROVE  ProgressInv'
<1> USE DEF Partitioned, Goto, Retry
<1>1. CASE \E ok \in BOOLEAN : welcome(ok) \/ disk_select(ok)
  BY <1>1 DEF ProgressInv, welcome, disk_select
<1>2. CASE \E ok \in BOOLEAN : create_partition_table(ok)
  BY <1>2 DEF ProgressInv, create_partition_table
<1>3. CASE \E ok \in BOOLEAN : create_boot(ok)
  <2>1. CASE UNCHANGED mbr /\ phase' = "begin" /\ UNCHANGED step
    BY <1>3, <2>1 DEF ProgressInv, create_boot
  <2>2. CASE create_partition(1, 0, BOOT_SIZE, "size") /\ phase' = "root" /\ UNCHANGED step
    <3>1. 1 \in Partitions /\ BOOT_SIZE # 0
      BY InstallerAssumption DEF Partitions
    <3>2. step = "PARTITION" /\ next_file' = next_file
      BY <1>3 DEF create_boot
    <3> QED BY <2>2, <3>1, <3>2, CreatedIsUsed DEF ProgressInv
  <2> QED BY <1>3, <2>1, <2>2 DEF create_boot
<1>4. CASE \E ok \in BOOLEAN : create_root(ok)
  <2>1. CASE UNCHANGED mbr /\ phase' = "begin" /\ UNCHANGED step
    BY <1>4, <2>1 DEF ProgressInv, create_root
  <2>2. CASE /\ \E answer \in {"no device", "no ioctl", "size"} :
                  create_partition(2, BOOT_SIZE, 0, answer)
             /\ step' = "FORMAT" /\ phase' = "begin"
    <3>1. 1 \in Partitions /\ 2 \in Partitions /\ BOOT_SIZE # 0
      BY InstallerAssumption DEF Partitions
    <3>2. step = "PARTITION" /\ phase = "root" /\ next_file' = next_file
      BY <1>4 DEF create_root
    <3> QED BY <2>2, <3>1, <3>2, CreatedIsUsed DEF ProgressInv
  <2> QED BY <1>4, <2>1, <2>2 DEF create_root
<1>5. CASE \E ok \in BOOLEAN : format_boot(ok) \/ format_root(ok) \/ mount_root(ok)
  BY <1>5 DEF ProgressInv, format_boot, format_root, mount_root
<1>6. CASE \/ \E ok \in BOOLEAN : copy_open_src(ok) \/ copy_open_dst(ok)
           \/ \E end \in {"end of file", "read fails", "write fails"} : copy_data(end)
  BY <1>6 DEF ProgressInv, copy_open_src, copy_open_dst, copy_data, CopyReturns
<1>7. CASE files_done
  BY <1>7, InstallerAssumption DEF ProgressInv, files_done
<1>8. CASE complete \/ \E ok \in BOOLEAN : install_grub(ok)
  BY <1>8 DEF ProgressInv, complete, install_grub
<1>9. CASE UNCHANGED installer_vars
  BY <1>9 DEF ProgressInv, installer_vars
<1> QED BY <1>1, <1>2, <1>3, <1>4, <1>5, <1>6, <1>7, <1>8, <1>9 DEF InstallerNext, Call

(* The installation is reported complete only when both partitions exist    *)
(* and are formatted and every required file was gone past.                 *)
THEOREM CompleteCorrect == InstallerSpec => []CompleteIsFormatted
<1>1. ProgressInv => CompleteIsFormatted
  BY DEF ProgressInv, CompleteIsFormatted, Partitioned, Partitions
<1> QED BY <1>1, ProgressInit, ProgressStep, PTL DEF InstallerSpec

-----------------------------------------------------------------------------
(* copy_file holds descriptors only inside install_files.                   *)
FdsInv ==
  /\ phase \in {"dst", "data"} => step = "INSTALL_FILES"
  /\ phase \notin {"dst", "data"} => fds = {}
  /\ fds \subseteq {"src", "dst"}
  /\ phase = "dst" => fds = {"src"}

LEMMA FdsStep ==
  ASSUME FdsInv, [InstallerNext]_installer_vars
  PROVE  FdsInv'
<1> USE DEF FdsInv, Goto, Retry
<1>1. CASE \E ok \in BOOLEAN : welcome(ok) \/ disk_select(ok)
  BY <1>1 DEF welcome, disk_select
<1>2. CASE \E ok \in BOOLEAN : create_partition_table(ok) \/ create_boot(ok) \/ create_root(ok)
  BY <1>2 DEF create_partition_table, create_boot, create_root
<1>3. CASE \E ok \in BOOLEAN : format_boot(ok) \/ format_root(ok) \/ mount_root(ok)
  BY <1>3 DEF format_boot, format_root, mount_root
<1>4. CASE \E ok \in BOOLEAN : copy_open_src(ok) \/ copy_open_dst(ok)
  BY <1>4 DEF copy_open_src, copy_open_dst, CopyReturns
<1>5. CASE \E end \in {"end of file", "read fails", "write fails"} : copy_data(end)
  BY <1>5 DEF copy_data, CopyReturns
<1>6. CASE files_done \/ complete \/ \E ok \in BOOLEAN : install_grub(ok)
  BY <1>6 DEF files_done, complete, install_grub
<1>7. CASE UNCHANGED installer_vars
  BY <1>7 DEF installer_vars
<1> QED BY <1>1, <1>2, <1>3, <1>4, <1>5, <1>6, <1>7 DEF InstallerNext, Call

(* Whatever fails, copy_file closes what it opened.                         *)
THEOREM CopyClosesFiles == InstallerSpec => []DescriptorsReturned
<1>1. InstallerInit(FoundMbrs) => FdsInv
  BY DEF InstallerInit, FdsInv
<1>2. FdsInv => DescriptorsReturned
  BY DEF FdsInv, DescriptorsReturned
<1> QED BY <1>1, <1>2, FdsStep, PTL DEF InstallerSpec
=============================================================================
