----------------------------- MODULE PathLookup -----------------------------
(***************************************************************************)
(* Looking up a path in the files the initrd was loaded with (module       *)
(* Initrd): vfs_finddir (vfs.c), which reads the path a character at a     *)
(* time.  The references below read the same path as the sequence of its   *)
(* components.                                                             *)
(***************************************************************************)
EXTENDS Initrd, Integers

CONSTANTS
  Letters,         \* characters other than "/" and "."
  MaxPath,         \* bound of the model: length of a path
  MountPaths,      \* where filesystems can be mounted besides "/"
  MAX_COMPONENT    \* 127: characters of a component that are kept

ASSUME LookupAssumption ==
  MaxPath \in Nat /\ MAX_COMPONENT \in Nat \ {0}

Characters == Letters \cup {"/", "."}
Paths == UNION {[1 .. n -> Characters] : n \in 1 .. MaxPath}
Root == <<"/">>
Dot == <<".">>
DotDot == <<".", ".">>
NULL == <<"NULL">>

VARIABLES
  mount_list,   \* the paths of the mounts, newest first
  path,         \* the argument of the calls
  found         \* what vfs_finddir(path) returned

vars == <<initrd_vars, mount_list, path, found>>

-----------------------------------------------------------------------------
(* find_mount_point: the longest mount path the path starts with, up to a   *)
(* directory boundary.                                                      *)
CharAt(s, i) == IF i <= Len(s) THEN s[i] ELSE "NUL"

OnBoundary_ignored(p, mp) == TRUE

OnBoundary(p, mp) == CharAt(p, Len(mp) + 1) \in {"/", "NUL"} \/ mp = Root

find_mount_point(p) ==
  LET Longest(best, mp) ==
        IF IsPrefix(mp, p) /\ (best = NULL \/ Len(mp) >= Len(best)) /\ OnBoundary(p, mp)
        THEN mp ELSE best
  IN FoldLeft(Longest, NULL, mount_list)

(* get_relative_path: behind the mount path and its slashes.  The caller    *)
(* treats the "." of an empty rest like the empty rest.                     *)
SkipSlashes(s) ==
  LET Rest == {i \in 1 .. Len(s) : s[i] # "/"}
  IN IF Rest = {} THEN <<>> ELSE SubSeq(s, Min(Rest), Len(s))

get_relative_path(p, mp) == SkipSlashes(SubSeq(p, Len(mp) + 1, Len(p)))

(* Nodes: the root of a mount (only the initrd at "/" has a finddir         *)
(* callback), a file of the initrd by its index, or NULL.                   *)
Directory(mp) == [mount |-> mp, file |-> 0]
File(i) == [mount |-> Root, file |-> i]
NoNode == [mount |-> NULL, file |-> 0]
NotCalled == [mount |-> <<>>, file |-> 0]

finddir(node, name) ==
  IF node = Directory(Root) /\ initrd_finddir(name) # 0
  THEN File(initrd_finddir(name)) ELSE NoNode

(* A component that is complete: "." and ".." leave the node as it is.      *)
Descend_without_dots(node, component) == finddir(node, component)

Descend(node, component) ==
  IF component \in {Dot, DotDot} THEN node ELSE finddir(node, component)

(* One character of the relative path.  A failed lookup ends the walk.      *)
Walk(w, ch) ==
  IF w.node = NoNode THEN w
  ELSE IF ch = "/"
  THEN IF w.component = <<>> THEN w
       ELSE [node |-> Descend(w.node, w.component), component |-> <<>>]
  ELSE IF Len(w.component) < MAX_COMPONENT
  THEN [w EXCEPT !.component = Append(@, ch)]
  ELSE w

Traverse(node, rel) ==
  LET w == FoldLeft(Walk, [node |-> node, component |-> <<>>], rel)
  IN IF w.component = <<>> \/ w.node = NoNode THEN w.node ELSE Descend(w.node, w.component)

vfs_finddir(p) ==
  LET mp == find_mount_point(p)
  IN IF p = Root THEN Directory(Root)
     ELSE IF mp = NULL THEN NoNode
     ELSE Traverse(Directory(mp), get_relative_path(p, mp))

-----------------------------------------------------------------------------
Init ==
  /\ InitrdInit
  /\ mount_list = <<Root>>
  /\ path = Root /\ found = NotCalled

(* vfs_mount of an ext4 file system: not over a file, and once on a path;   *)
(* the new mount goes to the head of the list.                              *)
vfs_mount(mp) ==
  /\ pc = "done" /\ found = NotCalled
  /\ vfs_finddir(mp).file = 0
  /\ mp \notin Range(mount_list)
  /\ mount_list' = <<mp>> \o mount_list
  /\ UNCHANGED <<initrd_vars, path, found>>

(* The lookup changes nothing but found, so a behaviour ends with it.       *)
lookup(p) ==
  /\ pc = "done" /\ found = NotCalled
  /\ path' = p
  /\ found' = vfs_finddir(p)
  /\ UNCHANGED <<initrd_vars, mount_list>>

Next ==
  \/ initrd_init /\ UNCHANGED <<mount_list, path, found>>
  \/ \E mp \in MountPaths : vfs_mount(mp)
  \/ \E p \in Paths : lookup(p)

Spec == Init /\ [][Next]_vars

-----------------------------------------------------------------------------
(* The components of a path: its maximal runs of characters other than "/". *)
Components(p) ==
  LET Starts == {i \in 1 .. Len(p) : p[i] # "/" /\ (i = 1 \/ p[i - 1] = "/")}
      end(i) == Max({j \in i .. Len(p) : \A k \in i .. j : p[k] # "/"})
      nth(n) == CHOOSE i \in Starts : Cardinality({j \in Starts : j <= i}) = n
  IN [n \in 1 .. Cardinality(Starts) |-> SubSeq(p, nth(n), end(nth(n)))]

Absolute(p) == Head(p) = "/"
NoEmptyComponent(p) == \A i \in 1 .. Len(p) - 1 : p[i] = "/" => p[i + 1] # "/"

(* The mount a path belongs to: the deepest one whose components are a      *)
(* prefix of the path's.                                                    *)
Above(p) == {i \in DOMAIN mount_list : IsPrefix(Components(mount_list[i]), Components(p))}
DeepestMount(p) ==
  mount_list[CHOOSE i \in Above(p) : \A j \in Above(p) :
               Len(Components(mount_list[j])) <= Len(Components(mount_list[i]))]

(* A path without duplicate slashes is looked up in the filesystem mounted  *)
(* deepest above it, never in a neighbour whose name starts alike.          *)
LookedUpInItsMount ==
  Absolute(path) /\ NoEmptyComponent(path) => find_mount_point(path) = DeepestMount(path)

(* The walk over the characters finds what the components name: below the   *)
(* initrd's root the one file the path names once "." and ".." are dropped, *)
(* for components that are not cut off.                                     *)
Expected(p) ==
  LET mp == find_mount_point(p)
      Named(c) == c \notin {Dot, DotDot}
      names == SelectSeq(Components(get_relative_path(p, mp)), Named)
  IN IF mp = NULL THEN NoNode
     ELSE IF names = <<>> THEN Directory(mp)
     ELSE IF Len(names) = 1 THEN finddir(Directory(mp), names[1])
     ELSE NoNode

LookupFollowsComponents ==
  (\A c \in Range(Components(path)) : Len(c) <= MAX_COMPONENT)
    => found \in {NotCalled, Expected(path)}
=============================================================================
