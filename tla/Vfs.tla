-------------------------------- MODULE Vfs --------------------------------
(***************************************************************************)
(* The virtual file system (src/kernel/fs/vfs.c) over the two file systems *)
(* the kernel has: the initrd (initrd.c), a root directory of read-only    *)
(* files, and ext4 (ext4.c), of which ext4_mount makes an empty root       *)
(* directory in heap memory that ext4_umount frees.                        *)
(*                                                                         *)
(* A path is Root or a name below it; deeper paths are the subject of      *)
(* module PathLookup.  No node has a write callback, and mkdir, rmdir and  *)
(* unlink end in "not implemented": those calls return -1 and change       *)
(* nothing.  vfs_open calls no open callback, for the same reason.         *)
(***************************************************************************)
EXTENDS Integers, Sequences, SequencesExt

CONSTANTS
  Names,                 \* names below the root directory
  Files,                 \* those of the initrd's files, in archive order
  Length,                \* the length of each file
  Slots,                 \* heap blocks an ext4 root node may occupy
  MAX_FILE_DESCRIPTORS,  \* 256
  FIRST_FD,              \* 3: the descriptors below are standard input, output, error
  ReadSizes, Offsets,    \* arguments of vfs_read and vfs_seek
  MaxPosition,           \* bound of the model on file positions
  Root, NULL

FileNames == {Files[i] : i \in 1 .. Len(Files)}
Nodes == {Root} \cup FileNames \cup Slots
Fds == 0 .. MAX_FILE_DESCRIPTORS - 1
Access == {"O_RDONLY", "O_WRONLY", "O_RDWR"}

ASSUME FilesAssumption == FileNames \subseteq Names /\ Length \in [FileNames -> Nat]
ASSUME DistinctAssumption ==
  /\ Root \notin Names \cup Slots /\ Names \cap Slots = {}
  /\ NULL \notin {Root} \cup Names \cup Slots
ASSUME FdsAssumption == MAX_FILE_DESCRIPTORS \in Nat /\ FIRST_FD \in Nat
ASSUME SizesAssumption == ReadSizes \subseteq Nat /\ Offsets \subseteq Int

VARIABLES
  node, position, flags,   \* the columns of fd_table
  mount_list,              \* from the head on: [path, node, fstype]
  allocated                \* slots that hold an ext4 root node

fd_vars == <<node, position, flags>>
vars == <<node, position, flags, mount_list, allocated>>

TypeOK ==
  /\ node \in [Fds -> Nodes \cup {NULL}]
  /\ position \in [Fds -> 0 .. MaxPosition]
  /\ flags \in [Fds -> SUBSET Access]
  /\ mount_list \in Seq([path : Names \cup {Root}, node : Nodes, fstype : {"initrd", "ext4"}])
  /\ allocated \subseteq Slots

vfs_init ==
  /\ node = [fd \in Fds |-> NULL]
  /\ position = [fd \in Fds |-> 0]
  /\ flags = [fd \in Fds |-> {}]
  /\ mount_list = <<[path |-> Root, node |-> Root, fstype |-> "initrd"]>>
  /\ allocated = {}

-----------------------------------------------------------------------------
IsDirectory(n) == n = Root \/ n \in Slots

MountedOn(path) == {i \in 1 .. Len(mount_list) : mount_list[i].path = path}

(* vfs_finddir: the mount on that very path, else the initrd's file.        *)
vfs_finddir(path) ==
  IF path = Root THEN Root
  ELSE IF MountedOn(path) # {}
       THEN mount_list[CHOOSE i \in MountedOn(path) : \A j \in MountedOn(path) : j <= i].node
  ELSE IF path \in FileNames THEN path ELSE NULL

(* alloc_fd: the least free descriptor from FIRST_FD on.                    *)
alloc_fd(fd) ==
  /\ fd \in Fds /\ fd >= FIRST_FD /\ node[fd] = NULL
  /\ \A lower \in FIRST_FD .. fd - 1 : node[lower] # NULL

SetFd(fd, n, pos, access) ==
  /\ node' = [node EXCEPT ![fd] = n]
  /\ position' = [position EXCEPT ![fd] = pos]
  /\ flags' = [flags EXCEPT ![fd] = access]

vfs_open(path, access) ==
  LET n == vfs_finddir(path)
  IN /\ n # NULL
     /\ ~(IsDirectory(n) /\ access \cap {"O_WRONLY", "O_RDWR"} # {})
     /\ \E fd \in Fds : alloc_fd(fd) /\ SetFd(fd, n, 0, access)
     /\ UNCHANGED <<mount_list, allocated>>

vfs_close(fd) ==
  /\ node[fd] # NULL
  /\ SetFd(fd, NULL, 0, {})
  /\ UNCHANGED <<mount_list, allocated>>

(* vfs_read of a file with initrd_read: the part of the request inside the  *)
(* file, nothing at or behind its end.                                      *)
initrd_read_unclamped(n, offset, size) ==
  IF offset >= Length[n] THEN 0 ELSE size

initrd_read(n, offset, size) ==
  IF offset >= Length[n] THEN 0
  ELSE IF offset + size > Length[n] THEN Length[n] - offset ELSE size

vfs_read(fd, size) ==
  /\ node[fd] \in FileNames
  /\ "O_WRONLY" \notin flags[fd]
  /\ LET bytes == initrd_read(node[fd], position[fd], size)
     IN /\ position[fd] + bytes <= MaxPosition
        /\ position' = [position EXCEPT ![fd] = @ + bytes]
  /\ UNCHANGED <<node, flags, mount_list, allocated>>

(* vfs_seek; an ext4 root and the root directory have length 0.             *)
SeekBase(fd, whence) ==
  CASE whence = "SEEK_SET" -> 0
    [] whence = "SEEK_CUR" -> position[fd]
    [] whence = "SEEK_END" -> IF node[fd] \in FileNames THEN Length[node[fd]] ELSE 0

vfs_seek(fd, offset, whence) ==
  /\ node[fd] # NULL
  /\ LET new_pos == SeekBase(fd, whence) + offset
     IN /\ new_pos \in 0 .. MaxPosition
        /\ position' = [position EXCEPT ![fd] = new_pos]
  /\ UNCHANGED <<node, flags, mount_list, allocated>>

(* vfs_readdir: only the initrd's root has a readdir callback.              *)
vfs_readdir(fd) ==
  /\ node[fd] = Root
  /\ position[fd] < Len(Files)
  /\ position[fd] < MaxPosition
  /\ position' = [position EXCEPT ![fd] = @ + 1]
  /\ UNCHANGED <<node, flags, mount_list, allocated>>

vfs_dup(oldfd) ==
  /\ node[oldfd] # NULL
  /\ \E newfd \in Fds :
       alloc_fd(newfd) /\ SetFd(newfd, node[oldfd], position[oldfd], flags[oldfd])
  /\ UNCHANGED <<mount_list, allocated>>

(* vfs_dup2 closes newfd first; the copy overwrites the cleared entry.      *)
vfs_dup2(oldfd, newfd) ==
  /\ node[oldfd] # NULL
  /\ oldfd # newfd
  /\ SetFd(newfd, node[oldfd], position[oldfd], flags[oldfd])
  /\ UNCHANGED <<mount_list, allocated>>

-----------------------------------------------------------------------------
(* vfs_mount: ext4_mount puts its root node into memory kmalloc hands out;  *)
(* an initrd is mounted by sharing the root node.                           *)
Mount(target, fstype) ==
  /\ \E n \in IF fstype = "ext4" THEN Slots \ allocated ELSE {Root} :
       /\ allocated' = allocated \cup ({n} \cap Slots)
       /\ mount_list' = <<[path |-> target, node |-> n, fstype |-> fstype]>> \o mount_list
  /\ UNCHANGED fd_vars

vfs_mount_twice(target, fstype) ==
  /\ vfs_finddir(target) = NULL \/ IsDirectory(vfs_finddir(target))
  /\ Mount(target, fstype)

vfs_mount(target, fstype) ==
  /\ vfs_finddir(target) = NULL \/ IsDirectory(vfs_finddir(target))
  /\ MountedOn(target) = {}
  /\ Mount(target, fstype)

(* vfs_umount of the first entry for target: ext4_umount frees the node.    *)
Unmount(i) ==
  /\ mount_list' = RemoveAt(mount_list, i)
  /\ allocated' = IF mount_list[i].fstype = "ext4"
                  THEN allocated \ {mount_list[i].node} ELSE allocated
  /\ UNCHANGED fd_vars

First(indices, i) == i \in indices /\ \A j \in indices : i <= j

vfs_umount(target) ==
  /\ target # Root
  /\ \E i \in MountedOn(target) : First(MountedOn(target), i) /\ Unmount(i)

Descriptors ==
  \/ \E path \in Names \cup {Root}, access \in {{}, {"O_RDONLY"}, {"O_WRONLY"}, {"O_RDWR"}} :
       vfs_open(path, access)
  \/ \E fd \in Fds :
       \/ vfs_close(fd)
       \/ \E size \in ReadSizes : vfs_read(fd, size)
       \/ \E offset \in Offsets, whence \in {"SEEK_SET", "SEEK_CUR", "SEEK_END"} :
            vfs_seek(fd, offset, whence)
       \/ vfs_readdir(fd)
       \/ vfs_dup(fd)
       \/ \E newfd \in Fds : vfs_dup2(fd, newfd)

Mounts ==
  \E target \in Names \cup {Root} :
    \/ \E fstype \in {"initrd", "ext4"} : vfs_mount(target, fstype)
    \/ vfs_umount(target)

Next == Descriptors \/ Mounts

Spec == vfs_init /\ [][Next]_vars

-----------------------------------------------------------------------------
(* A path has at most one mount, and every mounted node is one that was not *)
(* freed: resolving a path never follows a mount into freed memory.         *)
MountsResolve ==
  /\ \A path \in Names \cup {Root} : \A i, j \in MountedOn(path) : i = j
  /\ \A i \in 1 .. Len(mount_list) : mount_list[i].node \in Slots => mount_list[i].node \in allocated
  /\ \A i, j \in 1 .. Len(mount_list) :
       mount_list[i].node = mount_list[j].node /\ mount_list[i].node \in Slots => i = j

(* Whatever was sought and read before, a read that begins inside the file  *)
(* ends inside it, and one that begins at or behind its end returns nothing.*)
ReadInsideFile ==
  [][\A fd \in Fds : (\E size \in ReadSizes : vfs_read(fd, size)) =>
       position'[fd] <= Length[node[fd]] \/ position'[fd] = position[fd]]_vars
=============================================================================
