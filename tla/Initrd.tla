------------------------------- MODULE Initrd -------------------------------
(***************************************************************************)
(* Loading the initial RAM disk: initrd_init (initrd.c) walks the cpio     *)
(* archive once, header by header, and fills the table of files and their  *)
(* VFS nodes; afterwards initrd_finddir serves the VFS.                    *)
(* An archive is the sequence of its entries' names; a record that is not  *)
(* a header, or the end of the memory before a full header, ends it.       *)
(***************************************************************************)
EXTENDS Naturals, SequencesExt

CONSTANTS
  MAX_FILES,    \* 64
  MaxEntries    \* bound of the model: entries of the archive

ASSUME InitrdAssumption == MAX_FILES \in Nat /\ MaxEntries \in Nat

(* Names are sequences of characters: a file at the top, the same as find . *)
(* prints it, a file in a directory, the directory the archive was made in, *)
(* an entry without a name.                                                 *)
DotNames == {<<".">>, <<".", "/", "x">>}
Names == DotNames \cup {<<"x">>, <<"x", "x">>, <<"x", "/", "x">>, <<>>}
Stops == {<<"TRAILER!!!">>, <<"no header">>}

VARIABLES
  archive,        \* the entries in memory
  data,           \* how many of them have been passed
  files,          \* files[0 .. file_count-1].name
  initrd_nodes,   \* TRUE where kmalloc gave the file a node, FALSE where NULL
  pc              \* "scan", or "done" when initrd_init has returned

initrd_vars == <<archive, data, files, initrd_nodes, pc>>

InitrdInit ==
  /\ archive \in UNION {[1 .. n -> Names \cup Stops] : n \in 0 .. MaxEntries}
  /\ data = 0 /\ files = <<>> /\ initrd_nodes = <<>> /\ pc = "scan"

-----------------------------------------------------------------------------
More ==
  /\ data < Len(archive)
  /\ Len(files) < MAX_FILES
  /\ archive[data + 1] \notin Stops

(* "." and everything that starts with "./" is passed over.                 *)
skip_entry ==
  /\ pc = "scan" /\ More
  /\ archive[data + 1] \in DotNames
  /\ data' = data + 1
  /\ UNCHANGED <<archive, files, initrd_nodes, pc>>

(* Any other entry becomes a file; its node may be missing.                 *)
store_entry_only_with_node ==
  /\ pc = "scan" /\ More
  /\ archive[data + 1] \notin DotNames
  /\ data' = data + 1
  /\ \E allocated \in BOOLEAN :
       IF allocated THEN /\ files' = Append(files, archive[data + 1])
                         /\ initrd_nodes' = Append(initrd_nodes, TRUE)
                    ELSE UNCHANGED <<files, initrd_nodes>>
  /\ UNCHANGED <<archive, pc>>

store_entry ==
  /\ pc = "scan" /\ More
  /\ archive[data + 1] \notin DotNames
  /\ data' = data + 1
  /\ files' = Append(files, archive[data + 1])
  /\ \E allocated \in BOOLEAN : initrd_nodes' = Append(initrd_nodes, allocated)
  /\ UNCHANGED <<archive, pc>>

finish ==
  /\ pc = "scan" /\ ~More
  /\ pc' = "done"
  /\ UNCHANGED <<archive, data, files, initrd_nodes>>

(* The VFS callback: a file is named by its index in the table.             *)
initrd_finddir(name) ==
  LET Hits == {i \in DOMAIN files : files[i] = name}
  IN IF Hits = {} \/ ~initrd_nodes[Min(Hits)] THEN 0 ELSE Min(Hits)

initrd_init == skip_entry \/ store_entry \/ finish

-----------------------------------------------------------------------------
(* The table holds the archive's files in order, without the entries that   *)
(* are passed over, up to its first stop and to the table's capacity; a     *)
(* node that could not be allocated costs no other file its place.          *)
BeforeStop == {n \in 0 .. Len(archive) : \A i \in 1 .. n : archive[i] \notin Stops}
Kept == LET IsKept(name) == name \notin DotNames
        IN SelectSeq(SubSeq(archive, 1, Max(BeforeStop)), IsKept)

TableIsTheArchive ==
  pc = "done" => files = SubSeq(Kept, 1, Min({MAX_FILES, Len(Kept)}))
=============================================================================
