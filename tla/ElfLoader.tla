----------------------------- MODULE ElfLoader -----------------------------
(***************************************************************************)
(* Loading a program: elf_load (src/kernel/proc/elf.c) over the descriptor *)
(* table of module Vfs.  elf_load runs to its end before anything else     *)
(* uses the table.  A file has its header at 0, of HEADER units, then the  *)
(* program headers of PHENT units each; the byte at offset k is            *)
(* represented by k itself, a byte of the BSS by Zero.                     *)
(***************************************************************************)
EXTENDS Vfs, FiniteSetsExt

CONSTANTS
  HEADER, PHENT,   \* sizeof(elf_header_t), sizeof(elf_program_header_t)
  Addresses,       \* of memory
  Images           \* what the headers of the files may say

ASSUME ElfAssumption == {HEADER, PHENT} \subseteq Nat \ {0} /\ Addresses \subseteq Nat

e_entry == 1  \* any value but 0
Zero == -1
Old == -2     \* what was there before
Segment == [p_type : {"PT_LOAD", "other"}, p_offset : Nat, p_vaddr : Addresses,
            p_filesz : Nat, p_memsz : Nat]
Image == [valid : BOOLEAN, phdrs : Seq(Segment)]

ASSUME ImagesAssumption == Images \subseteq Image

VARIABLES
  image,     \* the headers of the files, which are the same in each
  elf,       \* "idle", "opened", "loading", "closing" or "returned"
  elf_fd,
  segment,   \* the loop's i
  memory,    \* what the load has put where
  entry_point,   \* the result so far
  table      \* history: the descriptor table when elf_load was called

elf_vars == <<vars, image, elf, elf_fd, segment, memory, entry_point, table>>

ElfTypeOK ==
  /\ image \in Image
  /\ elf \in {"idle", "opened", "loading", "closing", "returned"}
  /\ elf_fd \in Fds /\ segment \in 0 .. Len(image.phdrs)
  /\ memory \in [Addresses -> Nat \cup {Zero, Old}]

ElfInit(images) ==
  /\ vfs_init
  /\ image \in images
  /\ elf = "idle" /\ elf_fd = 0 /\ segment = 0 /\ entry_point = 0
  /\ memory = [a \in Addresses |-> Old]
  /\ table = <<>>

-----------------------------------------------------------------------------
(* vfs_open; without a node or a free descriptor elf_load returns 0.        *)
elf_load(path) ==
  /\ elf = "idle"
  /\ table' = fd_vars
  /\ IF vfs_finddir(path) # NULL /\ \E fd \in Fds : alloc_fd(fd)
     THEN vfs_open(path, {}) /\ (\E fd \in Fds : alloc_fd(fd) /\ elf_fd' = fd) /\ elf' = "opened"
     ELSE UNCHANGED <<vars, elf_fd>> /\ elf' = "returned"
  /\ UNCHANGED <<image, segment, memory, entry_point>>

(* What vfs_read returns after a seek to offset: a directory has no read    *)
(* callback.                                                                *)
ReadAt(offset, size) ==
  IF node[elf_fd] \in FileNames THEN initrd_read(node[elf_fd], offset, size) ELSE -1

(* The header is read and validated.                                        *)
elf_validate ==
  /\ elf = "opened"
  /\ LET ok == ReadAt(0, HEADER) = HEADER /\ image.valid
     IN /\ elf' = IF ok THEN "loading" ELSE "closing"
        /\ entry_point' = IF ok THEN e_entry ELSE 0
  /\ position' = [position EXCEPT ![elf_fd] = @ + Max({0, ReadAt(0, HEADER)})]
  /\ UNCHANGED <<node, flags, mount_list, allocated, image, elf_fd, segment, memory, table>>

(* One program header: what of it reaches memory.  The data that could be   *)
(* read is there even when it is not all of the segment; the BSS then is    *)
(* left as it was.                                                          *)
Copied(s, bytes) ==
  [a \in Addresses |->
     IF a \in s.p_vaddr .. s.p_vaddr + bytes - 1 THEN s.p_offset + (a - s.p_vaddr)
     ELSE memory[a]]

Cleared(s, m) ==
  [a \in Addresses |->
     IF a \in s.p_vaddr + s.p_filesz .. s.p_vaddr + s.p_memsz - 1 THEN Zero ELSE m[a]]

Loaded_clearing_all(s, bytes) == Cleared([s EXCEPT !.p_filesz = 0], Copied(s, bytes))

Loaded(s, bytes) == IF bytes = s.p_filesz THEN Cleared(s, Copied(s, bytes)) ELSE Copied(s, bytes)

elf_load_segment ==
  /\ elf = "loading" /\ segment < Len(image.phdrs)
  /\ LET s == image.phdrs[segment + 1]
         phdr == HEADER + segment * PHENT
         got == ReadAt(phdr, PHENT)
         bytes == ReadAt(s.p_offset, s.p_filesz)
     IN IF got = PHENT /\ s.p_type = "PT_LOAD"
        THEN /\ memory' = Loaded(s, bytes)
             /\ position' = [position EXCEPT ![elf_fd] = s.p_offset + bytes]
        ELSE /\ UNCHANGED memory
             /\ position' = [position EXCEPT ![elf_fd] = phdr + got]
  /\ segment' = segment + 1
  /\ UNCHANGED <<node, flags, mount_list, allocated, image, elf, elf_fd, entry_point, table>>

elf_close_only_after_load ==
  /\ elf = "closing" \/ (elf = "loading" /\ segment = Len(image.phdrs))
  /\ IF elf = "loading" THEN vfs_close(elf_fd) ELSE UNCHANGED vars
  /\ elf' = "returned"
  /\ UNCHANGED <<image, elf_fd, segment, memory, entry_point, table>>

elf_close ==
  /\ elf = "closing" \/ (elf = "loading" /\ segment = Len(image.phdrs))
  /\ vfs_close(elf_fd)
  /\ elf' = "returned"
  /\ UNCHANGED <<image, elf_fd, segment, memory, entry_point, table>>

ElfNext ==
  \/ elf = "idle" /\ Descriptors /\ UNCHANGED <<image, elf, elf_fd, segment, memory, entry_point, table>>
  \/ \E path \in Names \cup {Root} : elf_load(path)
  \/ elf_validate \/ elf_load_segment \/ elf_close

ElfSpec == ElfInit(Images) /\ [][ElfNext]_elf_vars

-----------------------------------------------------------------------------
(* What an executable in the file asks for: of the segments that cover an   *)
(* address the last decides, with its byte of the file or of the BSS.       *)
Covering(a) ==
  {i \in 1 .. Len(image.phdrs) :
     LET s == image.phdrs[i]
     IN s.p_type = "PT_LOAD" /\ a \in s.p_vaddr .. s.p_vaddr + Max({s.p_filesz, s.p_memsz}) - 1}

Wanted(a) ==
  LET s == image.phdrs[Max(Covering(a))]
  IN IF Covering(a) = {} THEN Old
     ELSE IF a < s.p_vaddr + s.p_filesz THEN s.p_offset + (a - s.p_vaddr) ELSE Zero

Holds(n, i) ==
  LET s == image.phdrs[i]
  IN HEADER + i * PHENT <= Length[n] /\ (s.p_filesz > 0 => s.p_offset + s.p_filesz <= Length[n])

(* When elf_load returns an entry point, memory is what the program headers *)
(* ask for, segments that overlap and segments that are BSS only included,  *)
(* provided the file holds all of them; when it returns 0, no memory was    *)
(* written.  (With a file that was cut it still returns the entry point.)   *)
LoadedIsTheFile ==
  elf = "returned" =>
    IF entry_point = 0 THEN memory = [a \in Addresses |-> Old]
    ELSE (\A n \in FileNames, i \in 1 .. Len(image.phdrs) : Holds(n, i))
           => memory = [a \in Addresses |-> Wanted(a)]

(* However it ends, elf_load leaves the descriptor table as it found it.    *)
LoadReturnsDescriptor == elf = "returned" => fd_vars = table
=============================================================================
