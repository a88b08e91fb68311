----------------------------- MODULE VfsProofs -----------------------------
(***************************************************************************)
(* Proofs for module Vfs, for any files, any number of descriptors, mounts *)
(* and heap slots: mounts resolve to nodes that exist, reads stay inside   *)
(* their files, and a free descriptor carries nothing over.                *)
(***************************************************************************)
EXTENDS Vfs, SequenceTheorems, TLAPS

MountPoint == [path : Names \cup {Root}, node : Nodes, fstype : {"initrd", "ext4"}]

(* MountsResolve, by the positions in the list.                             *)
MountInv ==
  /\ mount_list \in Seq(MountPoint)
  /\ \A i, j \in 1 .. Len(mount_list) : mount_list[i].path = mount_list[j].path => i = j
  /\ \A i \in 1 .. Len(mount_list) : mount_list[i].node \in Slots => mount_list[i].node \in allocated
  /\ \A i, j \in 1 .. Len(mount_list) :
       mount_list[i].node = mount_list[j].node /\ mount_list[i].node \in Slots => i = j

LEMMA MountInit == vfs_init => MountInv
<1> SUFFICES ASSUME vfs_init PROVE MountInv
  OBVIOUS
<1> DEFINE m == [path |-> Root, node |-> Root, fstype |-> "initrd"]
<1>1. mount_list = <<m>> /\ m \in MountPoint /\ m.node = Root
  BY DEF vfs_init, MountPoint, Nodes
<1>2. Root \notin Slots
  BY DistinctAssumption
<1> HIDE DEF m
<1>3. mount_list \in Seq(MountPoint) /\ Len(mount_list) = 1 /\ mount_list[1] = m
  BY <1>1
<1> QED BY <1>1, <1>2, <1>3 DEF MountInv

(* A new mount at the head of the list.                                     *)
LEMMA MountPreserves ==
  ASSUME MountInv, NEW target \in Names \cup {Root}, NEW fstype \in {"initrd", "ext4"},
         vfs_mount(target, fstype)
  PROVE  MountInv'
<1>1. PICK n \in IF fstype = "ext4" THEN Slots \ allocated ELSE {Root} :
        /\ allocated' = allocated \cup ({n} \cap Slots)
        /\ mount_list' = <<[path |-> target, node |-> n, fstype |-> fstype]>> \o mount_list
  BY DEF vfs_mount, Mount
<1> DEFINE m == [path |-> target, node |-> n, fstype |-> fstype]
           len == Len(mount_list)
<1>2. m \in MountPoint /\ m.path = target /\ m.node = n /\ n \notin allocated \cap Slots
  BY <1>1, DistinctAssumption DEF MountPoint, Nodes
<1>3. \A i \in 1 .. len : mount_list[i].path # target
  BY DEF vfs_mount, MountedOn
<1>4. mount_list \in Seq(MountPoint) /\ len \in Nat
  BY DEF MountInv
<1> HIDE DEF m
<1>5. /\ mount_list' \in Seq(MountPoint) /\ Len(mount_list') = len + 1
      /\ mount_list'[1] = m
      /\ \A i \in 2 .. len + 1 : i - 1 \in 1 .. len /\ mount_list'[i] = mount_list[i - 1]
  <2>1. <<m>> \in Seq(MountPoint) /\ Len(<<m>>) = 1 /\ <<m>>[1] = m
    BY <1>2
  <2>2. mount_list' = <<m>> \o mount_list
    BY <1>1 DEF m
  <2> QED BY <1>4, <2>1, <2>2, ConcatProperties
<1>6. \A i \in 1 .. len : mount_list[i].node \in Slots => mount_list[i].node # n
  BY <1>2 DEF MountInv
<1>7. \A i \in 1 .. len + 1 : i = 1 \/ i \in 2 .. len + 1
  BY <1>4
<1>8. ASSUME NEW i \in 1 .. len + 1, NEW j \in 1 .. len + 1
      PROVE  /\ mount_list'[i].path = mount_list'[j].path => i = j
             /\ mount_list'[i].node \in Slots => mount_list'[i].node \in allocated'
             /\ mount_list'[i].node = mount_list'[j].node /\ mount_list'[i].node \in Slots => i = j
  <2>1. CASE i = 1 /\ j = 1
    BY <1>1, <1>2, <1>5, <2>1
  <2>2. CASE i = 1 /\ j \in 2 .. len + 1
    BY <1>1, <1>2, <1>3, <1>5, <1>6, <2>2
  <2>3. CASE i \in 2 .. len + 1 /\ j = 1
    BY <1>1, <1>2, <1>3, <1>5, <1>6, <2>3 DEF MountInv
  <2>4. CASE i \in 2 .. len + 1 /\ j \in 2 .. len + 1
    <3>1. i - 1 \in 1 .. len /\ j - 1 \in 1 .. len /\ (i - 1 = j - 1 => i = j)
      BY <1>4, <2>4
    <3>2. mount_list'[i] = mount_list[i - 1] /\ mount_list'[j] = mount_list[j - 1]
      BY <1>5, <2>4
    <3>3. allocated \subseteq allocated'
      BY <1>1
    <3> QED BY <3>1, <3>2, <3>3 DEF MountInv
  <2> QED BY <1>7, <2>1, <2>2, <2>3, <2>4
<1> QED BY <1>5, <1>8 DEF MountInv

(* An unmount takes one entry out, and frees a node no other entry has.     *)
LEMMA UmountPreserves ==
  ASSUME MountInv, NEW target, vfs_umount(target)
  PROVE  MountInv'
<1> DEFINE len == Len(mount_list)
<1>1. PICK k \in 1 .. len : Unmount(k)
  BY DEF vfs_umount, MountedOn
<1>2. mount_list \in Seq(MountPoint) /\ len \in Nat /\ k \in Int
  BY DEF MountInv
<1>3. /\ mount_list' = SubSeq(mount_list, 1, k - 1) \o SubSeq(mount_list, k + 1, len)
      /\ allocated' \in {allocated, allocated \ {mount_list[k].node}}
  BY <1>1 DEF Unmount, RemoveAt
<1> DEFINE Old(i) == IF i < k THEN i ELSE i + 1
<1>4. /\ mount_list' \in Seq(MountPoint) /\ Len(mount_list') = len - 1
      /\ \A i \in 1 .. len - 1 : mount_list'[i] = mount_list[Old(i)]
  <2> DEFINE a == SubSeq(mount_list, 1, k - 1)
             b == SubSeq(mount_list, k + 1, len)
  <2>1. a \in Seq(MountPoint) /\ Len(a) = k - 1 /\ \A i \in 1 .. k - 1 : a[i] = mount_list[i]
    BY <1>2
  <2>2. b \in Seq(MountPoint) /\ Len(b) = len - k
        /\ \A i \in 1 .. len - k : b[i] = mount_list[k + i]
    BY <1>2
  <2> HIDE DEF a, b
  <2>3. a \o b \in Seq(MountPoint) /\ Len(a \o b) = len - 1
        /\ \A i \in 1 .. len - 1 : (a \o b)[i] = IF i <= k - 1 THEN a[i] ELSE b[i - (k - 1)]
    <3>1. a \o b \in Seq(MountPoint) /\ Len(a \o b) = Len(a) + Len(b)
          /\ \A i \in 1 .. Len(a) + Len(b) :
               (a \o b)[i] = IF i <= Len(a) THEN a[i] ELSE b[i - Len(a)]
      BY <2>1, <2>2, ConcatProperties
    <3> QED BY <1>2, <2>1, <2>2, <3>1
  <2>4. mount_list' = a \o b
    BY <1>3 DEF a, b
  <2>5. ASSUME NEW i \in 1 .. len - 1 PROVE (a \o b)[i] = mount_list[Old(i)]
    <3>1. CASE i < k
      BY <1>2, <2>1, <2>3, <3>1
    <3>2. CASE ~(i < k)
      <4>1. i - (k - 1) \in 1 .. len - k /\ k + (i - (k - 1)) = i + 1
        BY <1>2, <3>2
      <4> QED BY <1>2, <2>2, <2>3, <3>2, <4>1
    <3> QED BY <3>1, <3>2
  <2> QED BY <2>3, <2>4, <2>5
<1>5. \A i \in 1 .. len - 1 : Old(i) \in 1 .. len /\ Old(i) # k
  BY <1>2
<1>6. \A i, j \in 1 .. len - 1 : Old(i) = Old(j) => i = j
  BY <1>2
<1> HIDE DEF Old
<1>7. ASSUME NEW i \in 1 .. len - 1, NEW j \in 1 .. len - 1
      PROVE  /\ mount_list'[i].path = mount_list'[j].path => i = j
             /\ mount_list'[i].node \in Slots => mount_list'[i].node \in allocated'
             /\ mount_list'[i].node = mount_list'[j].node /\ mount_list'[i].node \in Slots => i = j
  <2>1. Old(i) \in 1 .. len /\ Old(j) \in 1 .. len /\ Old(i) # k /\ (Old(i) = Old(j) => i = j)
    BY <1>5, <1>6
  <2>2. mount_list'[i] = mount_list[Old(i)] /\ mount_list'[j] = mount_list[Old(j)]
    BY <1>4
  <2>3. mount_list[Old(i)].node \in Slots => mount_list[Old(i)].node # mount_list[k].node
    BY <2>1 DEF MountInv
  <2> QED BY <1>3, <2>1, <2>2, <2>3 DEF MountInv
<1> QED BY <1>4, <1>7 DEF MountInv

LEMMA MountStep ==
  ASSUME MountInv, [Next]_vars
  PROVE  MountInv'
<1>1. CASE Descriptors
  BY <1>1 DEF Descriptors, vfs_open, vfs_close, vfs_read, vfs_seek, vfs_readdir, vfs_dup,
              vfs_dup2, MountInv
<1>2. CASE Mounts
  BY <1>2, MountPreserves, UmountPreserves DEF Mounts
<1>3. CASE UNCHANGED vars
  BY <1>3 DEF vars, MountInv
<1> QED BY <1>1, <1>2, <1>3 DEF Next

(* Paths have at most one mount, and mounted nodes are never freed ones.    *)
THEOREM MountsCorrect == Spec => []MountsResolve
<1>1. MountInv => MountsResolve
  BY DEF MountInv, MountsResolve, MountedOn
<1> QED BY <1>1, MountInit, MountStep, PTL DEF Spec

-----------------------------------------------------------------------------
(* A free descriptor has position 0 and no flags, so that opening one and   *)
(* closing it again leaves no trace.                                        *)
DescriptorInv ==
  /\ node \in [Fds -> Nodes \cup {NULL}]
  /\ position \in [Fds -> Int]
  /\ flags \in [Fds -> SUBSET Access]
  /\ \A fd \in Fds : node[fd] = NULL => position[fd] = 0 /\ flags[fd] = {}

LEMMA DescriptorInit == vfs_init => DescriptorInv
  BY DEF vfs_init, DescriptorInv

LEMMA ReadIsInside ==
  ASSUME NEW n \in FileNames, NEW offset \in Int, NEW size \in Nat
  PROVE  /\ initrd_read(n, offset, size) \in Int
         /\ \/ offset + initrd_read(n, offset, size) <= Length[n]
            \/ initrd_read(n, offset, size) = 0
<1>1. Length[n] \in Nat
  BY FilesAssumption
<1> QED BY <1>1 DEF initrd_read

(* What a mount or a file of the initrd puts into the table is a node.      *)
LEMMA FoundIsNode ==
  ASSUME MountInv, NEW path
  PROVE  vfs_finddir(path) \in Nodes \cup {NULL}
<1>1. CASE path # Root /\ MountedOn(path) # {}
  <2> DEFINE last == CHOOSE i \in MountedOn(path) : \A j \in MountedOn(path) : j <= i
  <2>1. \A i, j \in MountedOn(path) : i = j
    BY DEF MountInv, MountedOn
  <2>2. \A i \in MountedOn(path) : i <= i
    BY DEF MountedOn
  <2>3. last \in MountedOn(path)
    BY <1>1, <2>1, <2>2
  <2> HIDE DEF last
  <2>4. mount_list[last] \in MountPoint
    BY <2>3 DEF MountInv, MountedOn
  <2>5. mount_list[last].node \in Nodes
    BY <2>4 DEF MountPoint
  <2> QED BY <1>1, <2>5 DEF vfs_finddir, last
<1>2. CASE ~(path # Root /\ MountedOn(path) # {})
  BY <1>2 DEF vfs_finddir, Nodes
<1> QED BY <1>1, <1>2

LEMMA DescriptorStep ==
  ASSUME MountInv, DescriptorInv, Descriptors
  PROVE  DescriptorInv'
<1>1. ASSUME NEW fd \in Fds, NEW n \in Nodes \cup {NULL}, NEW pos \in Int,
             NEW access \in SUBSET Access, SetFd(fd, n, pos, access),
             n = NULL => pos = 0 /\ access = {}
      PROVE  DescriptorInv'
  BY <1>1 DEF SetFd, DescriptorInv
<1>2. ASSUME NEW fd \in Fds, NEW pos \in Int, node[fd] # NULL,
             position' = [position EXCEPT ![fd] = pos], UNCHANGED <<node, flags>>
      PROVE  DescriptorInv'
  BY <1>2 DEF DescriptorInv
<1>3. ASSUME NEW path, NEW access \in SUBSET Access, vfs_open(path, access)
      PROVE  DescriptorInv'
  BY <1>1, <1>3, FoundIsNode DEF vfs_open
<1>4. ASSUME NEW fd \in Fds, vfs_close(fd) PROVE DescriptorInv'
  BY <1>1, <1>4 DEF vfs_close
<1>5. ASSUME NEW fd \in Fds, NEW size \in ReadSizes, vfs_read(fd, size) PROVE DescriptorInv'
  <2> DEFINE pos == position[fd] + initrd_read(node[fd], position[fd], size)
  <2>1. node[fd] # NULL /\ pos \in Int
    BY <1>5, ReadIsInside, SizesAssumption, FilesAssumption, DistinctAssumption
       DEF vfs_read, DescriptorInv
  <2>2. position' = [position EXCEPT ![fd] = pos] /\ UNCHANGED <<node, flags>>
    BY <1>5 DEF vfs_read
  <2> QED BY <1>2, <2>1, <2>2
<1>6. ASSUME NEW fd \in Fds, NEW offset \in Offsets,
             NEW whence \in {"SEEK_SET", "SEEK_CUR", "SEEK_END"}, vfs_seek(fd, offset, whence)
      PROVE  DescriptorInv'
  <2> DEFINE pos == SeekBase(fd, whence) + offset
  <2>1. position[fd] \in Int /\ offset \in Int /\ \A n \in FileNames : Length[n] \in Int
    BY SizesAssumption, FilesAssumption DEF DescriptorInv
  <2>2. SeekBase(fd, whence) \in Int
    BY <2>1 DEF SeekBase
  <2>3. position' = [position EXCEPT ![fd] = pos] /\ UNCHANGED <<node, flags>> /\ node[fd] # NULL
    BY <1>6 DEF vfs_seek
  <2> HIDE DEF pos
  <2>4. pos \in Int
    BY <2>1, <2>2 DEF pos
  <2> QED BY <1>2, <2>3, <2>4
<1>7. ASSUME NEW fd \in Fds, vfs_readdir(fd) PROVE DescriptorInv'
  BY <1>2, <1>7, DistinctAssumption DEF vfs_readdir, DescriptorInv
<1>8. ASSUME NEW fd \in Fds, vfs_dup(fd) PROVE DescriptorInv'
  BY <1>1, <1>8 DEF vfs_dup, DescriptorInv
<1>9. ASSUME NEW fd \in Fds, NEW newfd \in Fds, vfs_dup2(fd, newfd) PROVE DescriptorInv'
  BY <1>1, <1>9 DEF vfs_dup2, DescriptorInv
<1>10. \A access \in {{}, {"O_RDONLY"}, {"O_WRONLY"}, {"O_RDWR"}} : access \in SUBSET Access
  BY DEF Access
<1> QED BY <1>3, <1>4, <1>5, <1>6, <1>7, <1>8, <1>9, <1>10 DEF Descriptors

LEMMA TableStep ==
  ASSUME MountInv, DescriptorInv, [Next]_vars
  PROVE  DescriptorInv'
<1>1. CASE Mounts
  BY <1>1 DEF Mounts, vfs_mount, Mount, vfs_umount, Unmount, fd_vars, DescriptorInv
<1>2. CASE UNCHANGED vars
  BY <1>2 DEF vars, DescriptorInv
<1> QED BY <1>1, <1>2, DescriptorStep DEF Next

(* Reads that begin inside a file end inside it, from any position.         *)
THEOREM ReadsInside == Spec => ReadInsideFile
<1> DEFINE Step == \A fd \in Fds : (\E size \in ReadSizes : vfs_read(fd, size)) =>
                     position'[fd] <= Length[node[fd]] \/ position'[fd] = position[fd]
<1>1. ASSUME DescriptorInv, NEW fd \in Fds, NEW size \in ReadSizes, vfs_read(fd, size)
      PROVE  position'[fd] <= Length[node[fd]] \/ position'[fd] = position[fd]
  <2>1. position[fd] \in Int /\ size \in Nat /\ node[fd] \in FileNames
    BY <1>1, SizesAssumption DEF DescriptorInv, vfs_read
  <2>2. position'[fd] = position[fd] + initrd_read(node[fd], position[fd], size)
    BY <1>1 DEF DescriptorInv, vfs_read
  <2> QED BY <2>1, <2>2, ReadIsInside
<1>2. DescriptorInv => [Step]_vars
  BY <1>1
<1> HIDE DEF Step
<1>3. Spec => [][Step]_vars
  BY <1>2, MountInit, MountStep, DescriptorInit, TableStep, PTL DEF Spec
<1> QED BY <1>3 DEF Step, ReadInsideFile
=============================================================================
