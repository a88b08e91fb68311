----------------------------- MODULE Installer -----------------------------
(***************************************************************************)
(* The installer, src/apps/installer: installer.c steps through welcome,   *)
(* disk selection, partitioning, formatting, copying and the boot loader,  *)
(* each step repeated until it succeeds; partition.c writes the partition  *)
(* table.  Every system call may fail.  Sizes are in units of 2048 sectors *)
(* and wrap at WORD, as the code's uint32_t do.                            *)
(***************************************************************************)
EXTENDS Integers

CONSTANTS
  DISK,            \* size of the disk, which the ioctl reports
  DEFAULT_SIZE,    \* 8192: get_disk_size without an answer from the ioctl
  DEFAULT_START,   \* 1: first sector of the first partition
  BOOT_SIZE,       \* 256: the boot partition, and where the root partition starts
  WORD,            \* 2^32 sectors
  REQUIRED, FILES  \* files to copy: kernel and initrd come first, then the applications

ASSUME InstallerAssumption ==
  /\ {DISK, DEFAULT_SIZE, DEFAULT_START, BOOT_SIZE} \subseteq 1 .. WORD - 1
  /\ FILES \in Nat /\ REQUIRED \in 1 .. FILES

Partitions == 1 .. 2       \* of the table's four entries, the ones in use
Unused == [start |-> 0, size |-> 0]

VARIABLES
  step,        \* current_step
  phase,       \* "begin" of the step, or how far its function has come
  mbr,         \* the table on the disk: signature and entries
  formatted,   \* partitions with a file system
  mounted,     \* the root partition is mounted on /mnt
  copied,      \* files that are on it in full
  next_file,   \* the next file of install_files
  fds,         \* its open descriptors
  answers      \* history: the questions answered with yes

installer_vars == <<step, phase, mbr, formatted, mounted, copied, next_file, fds, answers>>

InstallerTypeOK ==
  /\ step \in {"WELCOME", "DISK_SELECT", "PARTITION", "FORMAT", "INSTALL_FILES",
               "INSTALL_GRUB", "COMPLETE", "EXITED"}
  /\ phase \in {"begin", "boot", "root", "copy", "dst", "data"}
  /\ mbr \in [signature : BOOLEAN,
              entries : [Partitions -> [start : 0 .. WORD - 1, size : 0 .. WORD - 1]]]
  /\ formatted \subseteq Partitions /\ mounted \in BOOLEAN
  /\ copied \subseteq 1 .. FILES /\ next_file \in 1 .. FILES + 1
  /\ fds \subseteq {"src", "dst"}

(* The disk holds no table, or that of another system.                      *)
FoundMbrs == [signature : BOOLEAN, entries : {[p \in Partitions |-> Unused]}]

InstallerInit(mbrs) ==
  /\ step = "WELCOME" /\ phase = "begin"
  /\ mbr \in mbrs
  /\ formatted = {} /\ mounted = FALSE /\ copied = {}
  /\ next_file = 1 /\ fds = {} /\ answers = {}

Goto(s) == step' = s /\ phase' = "begin"
Retry == phase' = "begin" /\ UNCHANGED step     \* "Press Enter to retry..."

-----------------------------------------------------------------------------
welcome(yes) ==
  /\ step = "WELCOME"
  /\ Goto(IF yes THEN "DISK_SELECT" ELSE "EXITED")
  /\ answers' = IF yes THEN {"continue"} ELSE {}
  /\ UNCHANGED <<mbr, formatted, mounted, copied, next_file, fds>>

disk_select_ignoring_answer(yes) ==
  /\ step = "DISK_SELECT"
  /\ Goto("PARTITION")
  /\ answers' = IF yes THEN answers \cup {"confirm"} ELSE answers
  /\ UNCHANGED <<mbr, formatted, mounted, copied, next_file, fds>>

disk_select(yes) ==
  /\ step = "DISK_SELECT"
  /\ Goto(IF yes THEN "PARTITION" ELSE "WELCOME")
  /\ answers' = IF yes THEN answers \cup {"confirm"} ELSE answers
  /\ UNCHANGED <<mbr, formatted, mounted, copied, next_file, fds>>

-----------------------------------------------------------------------------
(* partition_disk: the table, then the boot and the root partition.         *)
create_partition_table(ok) ==
  /\ step = "PARTITION" /\ phase = "begin"
  /\ IF ok THEN /\ mbr' = [signature |-> TRUE, entries |-> [p \in Partitions |-> Unused]]
                /\ formatted' = {} /\ phase' = "boot" /\ UNCHANGED step
           ELSE Retry /\ UNCHANGED <<mbr, formatted>>
  /\ UNCHANGED <<mounted, copied, next_file, fds, answers>>

get_disk_size(answer) ==
  CASE answer = "no device" -> 0
    [] answer = "no ioctl"  -> DEFAULT_SIZE
    [] answer = "size"      -> DISK

Ends(n) == {mbr.entries[i].start + mbr.entries[i].size :
              i \in {k \in 1 .. n - 1 : mbr.entries[k].size > 0}}

StartSector(n, start) ==
  IF start # 0 THEN start
  ELSE CHOOSE s \in Ends(n) \cup {DEFAULT_START} : \A e \in Ends(n) \cup {DEFAULT_START} : e <= s

NumSectors(start, size, answer) ==
  IF size # 0 THEN size ELSE (get_disk_size(answer) - start) % WORD

create_partition(n, start, size, answer) ==
  /\ mbr.signature
  /\ LET first == StartSector(n, start)
     IN mbr' = [mbr EXCEPT !.entries[n] = [start |-> first, size |-> NumSectors(first, size, answer)]]

create_boot_unchecked(ok) ==
  /\ step = "PARTITION" /\ phase = "boot"
  /\ IF ok THEN create_partition(1, 0, BOOT_SIZE, "size") ELSE UNCHANGED mbr
  /\ phase' = "root"
  /\ UNCHANGED <<step, formatted, mounted, copied, next_file, fds, answers>>

create_boot(ok) ==
  /\ step = "PARTITION" /\ phase = "boot"
  /\ IF ok THEN create_partition(1, 0, BOOT_SIZE, "size") /\ phase' = "root" /\ UNCHANGED step
           ELSE Retry /\ UNCHANGED mbr
  /\ UNCHANGED <<formatted, mounted, copied, next_file, fds, answers>>

create_root(ok) ==
  /\ step = "PARTITION" /\ phase = "root"
  /\ IF ok THEN /\ \E answer \in {"no device", "no ioctl", "size"} :
                     create_partition(2, BOOT_SIZE, 0, answer)
                /\ Goto("FORMAT")
           ELSE Retry /\ UNCHANGED mbr
  /\ UNCHANGED <<formatted, mounted, copied, next_file, fds, answers>>

-----------------------------------------------------------------------------
(* format_partitions.                                                       *)
format_boot(ok) ==
  /\ step = "FORMAT" /\ phase = "begin"
  /\ IF ok THEN formatted' = formatted \cup {1} /\ phase' = "root" /\ UNCHANGED step
           ELSE Retry /\ UNCHANGED formatted
  /\ UNCHANGED <<mbr, mounted, copied, next_file, fds, answers>>

format_root(ok) ==
  /\ step = "FORMAT" /\ phase = "root"
  /\ IF ok THEN formatted' = formatted \cup {2} /\ Goto("INSTALL_FILES")
           ELSE Retry /\ UNCHANGED formatted
  /\ UNCHANGED <<mbr, mounted, copied, next_file, fds, answers>>

-----------------------------------------------------------------------------
(* install_files: the mount, which the kernel refuses when /mnt is mounted  *)
(* already, then the files one after the other; for an application that     *)
(* cannot be copied there is only a warning.                                *)
mount_root(ok) ==
  /\ step = "INSTALL_FILES" /\ phase = "begin"
  /\ IF ok /\ ~mounted THEN mounted' = TRUE /\ phase' = "copy" /\ UNCHANGED step
                       ELSE Retry /\ UNCHANGED mounted
  /\ UNCHANGED <<mbr, formatted, copied, next_file, fds, answers>>

CopyReturns(ok) ==
  IF ok \/ next_file > REQUIRED THEN next_file' = next_file + 1 /\ phase' = "copy" /\ UNCHANGED step
                           ELSE next_file' = 1 /\ Retry

copy_open_src(ok) ==
  /\ step = "INSTALL_FILES" /\ phase = "copy" /\ next_file <= FILES
  /\ IF ok THEN fds' = fds \cup {"src"} /\ phase' = "dst" /\ UNCHANGED <<step, next_file>>
           ELSE CopyReturns(FALSE) /\ UNCHANGED fds
  /\ UNCHANGED <<mbr, formatted, mounted, copied, answers>>

copy_open_dst(ok) ==
  /\ step = "INSTALL_FILES" /\ phase = "dst"
  /\ IF ok THEN fds' = fds \cup {"dst"} /\ phase' = "data" /\ UNCHANGED <<step, next_file>>
           ELSE CopyReturns(FALSE) /\ fds' = fds \ {"src"}
  /\ UNCHANGED <<mbr, formatted, mounted, copied, answers>>

(* The loop ends at the end of the file or when a read fails: both are a    *)
(* success.  Only a failing write is an error.                              *)
copy_data(end) ==
  /\ step = "INSTALL_FILES" /\ phase = "data"
  /\ copied' = IF end = "end of file" THEN copied \cup {next_file} ELSE copied
  /\ fds' = fds \ {"src", "dst"}
  /\ CopyReturns(end # "write fails")
  /\ UNCHANGED <<mbr, formatted, mounted, answers>>

(* create_fstab and create_grub_config, whose results nobody looks at.      *)
files_done ==
  /\ step = "INSTALL_FILES" /\ phase = "copy" /\ next_file = FILES + 1
  /\ Goto("INSTALL_GRUB")
  /\ UNCHANGED <<mbr, formatted, mounted, copied, next_file, fds, answers>>

install_grub(ok) ==
  /\ step = "INSTALL_GRUB"
  /\ IF ok THEN Goto("COMPLETE") ELSE Retry
  /\ UNCHANGED <<mbr, formatted, mounted, copied, next_file, fds, answers>>

complete ==
  /\ step = "COMPLETE" /\ Goto("EXITED")
  /\ UNCHANGED <<mbr, formatted, mounted, copied, next_file, fds, answers>>

Call(ok) ==
  \/ create_partition_table(ok) \/ create_boot(ok) \/ create_root(ok)
  \/ format_boot(ok) \/ format_root(ok)
  \/ mount_root(ok) \/ copy_open_src(ok) \/ copy_open_dst(ok)
  \/ install_grub(ok)

InstallerNext ==
  \/ \E ok \in BOOLEAN : welcome(ok) \/ disk_select(ok) \/ Call(ok)
  \/ \E end \in {"end of file", "read fails", "write fails"} : copy_data(end)
  \/ files_done \/ complete

InstallerSpec == InstallerInit(FoundMbrs) /\ [][InstallerNext]_installer_vars

-----------------------------------------------------------------------------
(* The disk is only written after both questions, in this round of them,    *)
(* were answered with yes.                                                  *)
ErasedOnlyWhenConfirmed ==
  [][mbr' # mbr => answers = {"continue", "confirm"}]_installer_vars

(* Whatever call fails, copy_file gives back the descriptors it opened, so  *)
(* retrying does not use up the table.                                      *)
DescriptorsReturned == phase \notin {"dst", "data"} => fds = {}

(* "Installation Complete!" is shown only when both partitions exist and    *)
(* are formatted, the root is mounted and install_files went past every     *)
(* file it insists on.                                                      *)
CompleteIsFormatted ==
  step = "COMPLETE" =>
    /\ \A p \in Partitions : mbr.entries[p] # Unused /\ p \in formatted
    /\ mounted /\ next_file > REQUIRED
=============================================================================
