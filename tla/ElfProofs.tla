----------------------------- MODULE ElfProofs -----------------------------
(***************************************************************************)
(* Proof for module ElfLoader: for any files, program headers and use of   *)
(* the descriptor table before, elf_load gives back the descriptor it took.*)
(***************************************************************************)
EXTENDS ElfLoader, VfsProofs

(* The table as it will be once elf_fd is closed.                           *)
AfterClose ==
  <<[node EXCEPT ![elf_fd] = NULL], [position EXCEPT ![elf_fd] = 0], [flags EXCEPT ![elf_fd] = {}]>>

ElfInv ==
  /\ MountInv /\ DescriptorInv
  /\ elf \in {"idle", "opened", "loading", "closing", "returned"}
  /\ elf \in {"opened", "loading", "closing"} => elf_fd \in Fds /\ table = AfterClose
  /\ elf = "returned" => table = fd_vars
  \* only a file has the header that leads to the program headers
  /\ elf = "opened" => node[elf_fd] # NULL
  /\ elf = "loading" => node[elf_fd] \in FileNames
  /\ elf = "closing" => node[elf_fd] # NULL
  /\ image \in Image /\ segment \in Nat

(* The results of reads are numbers.                                        *)
LEMMA ReadAtInt ==
  ASSUME NEW offset \in Nat, NEW size \in Nat
  PROVE  ReadAt(offset, size) \in Int
<1>1. offset \in Int
  OBVIOUS
<1> QED BY <1>1, ReadIsInside DEF ReadAt

(* Seeking and reading move the position of elf_fd and nothing else.        *)
LEMMA MovePreserves ==
  ASSUME DescriptorInv, MountInv, elf_fd \in Fds, table = AfterClose, node[elf_fd] # NULL,
         NEW pos \in Int, position' = [position EXCEPT ![elf_fd] = pos],
         UNCHANGED <<node, flags, mount_list, allocated, elf_fd, table>>
  PROVE  DescriptorInv' /\ MountInv' /\ table' = AfterClose'
<1>1. DescriptorInv'
  BY DEF DescriptorInv
<1>2. MountInv'
  BY DEF MountInv
<1>3. [position EXCEPT ![elf_fd] = 0] = [position' EXCEPT ![elf_fd] = 0]
  BY DEF DescriptorInv
<1> QED BY <1>1, <1>2, <1>3 DEF AfterClose

LEMMA ElfStep ==
  ASSUME ElfInv, [ElfNext]_elf_vars
  PROVE  ElfInv'
<1>1. CASE elf = "idle" /\ Descriptors
           /\ UNCHANGED <<image, elf, elf_fd, segment, memory, entry_point, table>>
  <2>1. DescriptorInv' /\ MountInv'
    BY <1>1, DescriptorStep, MountStep DEF ElfInv, Next
  <2> QED BY <1>1, <2>1 DEF ElfInv
<1>2. ASSUME NEW path \in Names \cup {Root}, elf_load(path)
      PROVE  ElfInv'
  <2>1. CASE vfs_finddir(path) # NULL /\ \E fd \in Fds : alloc_fd(fd)
    <3>1. /\ vfs_open(path, {}) /\ elf' = "opened" /\ table' = fd_vars
          /\ UNCHANGED <<image, segment>>
      BY <1>2, <2>1 DEF elf_load
    <3>2. PICK fd \in Fds : alloc_fd(fd) /\ elf_fd' = fd
      BY <1>2, <2>1 DEF elf_load
    <3>3. PICK fd2 \in Fds : alloc_fd(fd2) /\ SetFd(fd2, vfs_finddir(path), 0, {})
      BY <3>1 DEF vfs_open
    <3>4. fd = fd2
      BY <3>2, <3>3, FdsAssumption DEF alloc_fd, Fds
    <3>5. Descriptors
      BY <3>1 DEF Descriptors
    <3>6. DescriptorInv' /\ MountInv'
      BY <3>5, DescriptorStep, MountStep DEF ElfInv, Next
    <3>7. node[fd] = NULL /\ position[fd] = 0 /\ flags[fd] = {}
      BY <3>2 DEF alloc_fd, ElfInv, DescriptorInv
    <3>8. node'[fd] # NULL
      BY <2>1, <3>3, <3>4 DEF SetFd, ElfInv, DescriptorInv
    <3>9. table' = AfterClose'
      <4>1. [node' EXCEPT ![fd] = NULL] = node
        BY <3>3, <3>4, <3>7 DEF SetFd, ElfInv, DescriptorInv
      <4>2. [position' EXCEPT ![fd] = 0] = position
        BY <3>3, <3>4, <3>7 DEF SetFd, ElfInv, DescriptorInv
      <4>3. [flags' EXCEPT ![fd] = {}] = flags
        BY <3>3, <3>4, <3>7 DEF SetFd, ElfInv, DescriptorInv
      <4> QED BY <3>1, <3>2, <4>1, <4>2, <4>3 DEF AfterClose, fd_vars
    <3> QED BY <3>1, <3>2, <3>6, <3>8, <3>9 DEF ElfInv
  <2>2. CASE ~(vfs_finddir(path) # NULL /\ \E fd \in Fds : alloc_fd(fd))
    <3>1. UNCHANGED <<vars, image, segment>> /\ elf' = "returned" /\ table' = fd_vars
      BY <1>2, <2>2 DEF elf_load
    <3>2. DescriptorInv' /\ MountInv'
      BY <3>1 DEF vars, ElfInv, DescriptorInv, MountInv
    <3>3. fd_vars' = fd_vars
      BY <3>1 DEF vars, fd_vars
    <3> QED BY <3>1, <3>2, <3>3 DEF ElfInv
  <2> QED BY <2>1, <2>2
<1>3. CASE elf_validate
  <2> DEFINE pos == position[elf_fd] + Max({0, ReadAt(0, HEADER)})
  <2>1. ReadAt(0, HEADER) \in Int /\ HEADER \in Nat \ {0}
    BY ReadAtInt, ElfAssumption
  <2>2. Max({0, ReadAt(0, HEADER)}) \in Int
    <3>1. PICK x \in {0, ReadAt(0, HEADER)} : \A y \in {0, ReadAt(0, HEADER)} : x >= y
      BY <2>1
    <3> QED BY <2>1, <3>1 DEF Max
  <2>3. elf_fd \in Fds /\ node[elf_fd] # NULL /\ table = AfterClose /\ position[elf_fd] \in Int
    BY <1>3 DEF elf_validate, ElfInv, DescriptorInv
  <2>4. pos \in Int
    BY <2>2, <2>3
  <2>5. position' = [position EXCEPT ![elf_fd] = pos]
        /\ UNCHANGED <<node, flags, mount_list, allocated, image, elf_fd, segment, table>>
    BY <1>3 DEF elf_validate
  <2> HIDE DEF pos
  <2>6. DescriptorInv' /\ MountInv' /\ table' = AfterClose'
    BY <2>3, <2>4, <2>5, MovePreserves DEF ElfInv
  <2>7. \/ elf' = "loading" /\ node[elf_fd] \in FileNames
        \/ elf' = "closing"
    BY <1>3, <2>1 DEF elf_validate, ReadAt
  <2> QED BY <2>3, <2>5, <2>6, <2>7 DEF ElfInv
<1>4. CASE elf_load_segment
  <2> DEFINE s == image.phdrs[segment + 1]
             phdr == HEADER + segment * PHENT
  <2>1. s \in Segment
    BY <1>4 DEF elf_load_segment, ElfInv, Image
  <2>2. s.p_offset \in Nat /\ s.p_filesz \in Nat
    BY <2>1 DEF Segment
  <2> HIDE DEF s
  <2>3. HEADER \in Nat /\ PHENT \in Nat /\ segment \in Nat
    BY ElfAssumption DEF ElfInv
  <2>4. phdr \in Nat
    BY <2>3
  <2> HIDE DEF phdr
  <2>5. ReadAt(phdr, PHENT) \in Int /\ ReadAt(s.p_offset, s.p_filesz) \in Int
    <3>1. ReadAt(phdr, PHENT) \in Int
      BY <2>3, <2>4, ReadAtInt
    <3>2. ReadAt(s.p_offset, s.p_filesz) \in Int
      BY <2>2, ReadAtInt
    <3> QED BY <3>1, <3>2
  <2>6. \/ position' = [position EXCEPT ![elf_fd] = s.p_offset + ReadAt(s.p_offset, s.p_filesz)]
        \/ position' = [position EXCEPT ![elf_fd] = phdr + ReadAt(phdr, PHENT)]
    BY <1>4 DEF elf_load_segment, s, phdr
  <2>7. elf = "loading" /\ segment' = segment + 1
        /\ UNCHANGED <<node, flags, mount_list, allocated, image, elf, elf_fd, table>>
    BY <1>4 DEF elf_load_segment
  <2>8. elf_fd \in Fds /\ node[elf_fd] # NULL /\ table = AfterClose
    BY <2>7, FilesAssumption, DistinctAssumption DEF ElfInv
  <2>9. s.p_offset + ReadAt(s.p_offset, s.p_filesz) \in Int /\ phdr + ReadAt(phdr, PHENT) \in Int
    BY <2>2, <2>4, <2>5
  <2>10. DescriptorInv' /\ MountInv' /\ table' = AfterClose'
    BY <2>6, <2>7, <2>8, <2>9, MovePreserves DEF ElfInv
  <2> QED BY <2>3, <2>7, <2>8, <2>10 DEF ElfInv
<1>5. CASE elf_close
  <2>1. vfs_close(elf_fd) /\ elf' = "returned" /\ UNCHANGED <<image, segment, table>>
        /\ elf_fd \in Fds /\ table = AfterClose
    BY <1>5 DEF elf_close, ElfInv
  <2>2. DescriptorInv' /\ MountInv'
    BY <2>1, DescriptorStep, MountStep DEF ElfInv, Next, Descriptors
  <2>3. fd_vars' = AfterClose
    BY <2>1 DEF vfs_close, SetFd, fd_vars, AfterClose
  <2> QED BY <2>1, <2>2, <2>3 DEF ElfInv
<1>6. CASE UNCHANGED elf_vars
  BY <1>6 DEF elf_vars, vars, fd_vars, AfterClose, ElfInv, MountInv, DescriptorInv
<1> QED BY <1>1, <1>2, <1>3, <1>4, <1>5, <1>6 DEF ElfNext

(* elf_load returns with the descriptor table it was called with.           *)
THEOREM LoadReturns == ElfSpec => []LoadReturnsDescriptor
<1>1. ElfInit(Images) => ElfInv
  BY MountInit, DescriptorInit, ImagesAssumption DEF ElfInit, ElfInv
<1>2. ElfInv => LoadReturnsDescriptor
  BY DEF ElfInv, LoadReturnsDescriptor
<1> QED BY <1>1, <1>2, ElfStep, PTL DEF ElfSpec
=============================================================================
