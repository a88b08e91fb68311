---------------------------- MODULE AddressSpace ----------------------------
(***************************************************************************)
(* The process table and the page directories of its processes: what       *)
(* process_create, process_fork, process_exec, process_switch and          *)
(* free_process (process.c) do to paging memory.                           *)
(***************************************************************************)
EXTENDS Process, Vmm

CONSTANTS FORK_SHARED,   \* directory entries fork copies without cloning
          StackEntry,    \* the directory entry of the user stack
          STACK_PAGES    \* the last pages of that entry's table are the stack

ASSUME SpaceAssumption ==
  /\ FORK_SHARED \in IDENTITY .. PD_ENTRIES
  /\ StackEntry \in Directory
  /\ StackEntry >= KERNEL_ENTRIES /\ StackEntry >= FORK_SHARED
  /\ STACK_PAGES \in 1 .. PT_ENTRIES

VARIABLES
  mm,                       \* paging memory (module Vmm)
  page_directory,           \* proc->page_directory by pid; 0 is NULL
  current_page_directory    \* what CR3 holds

space_vars == <<vars, mm, page_directory, current_page_directory>>

(* process_init creates a directory for the kernel process, then replaces   *)
(* it by the one that is loaded.                                            *)
SpaceInit ==
  /\ process_init
  /\ mm = vmm_create_page_directory(vmm_init)
  /\ page_directory = [p \in Pids |-> IF p = Kernel THEN KernelDirectory ELSE 0]
  /\ current_page_directory = KernelDirectory

-----------------------------------------------------------------------------
(* clone_page_directory_deep: the entries below FORK_SHARED are the same    *)
(* tables; a table above is copied page by page into fresh heap pages.  A   *)
(* page or table the heap cannot supply is left out without an error.       *)
Upwards(from, to) == [k \in 1 .. to - from |-> from + k - 1]   \* a for loop's indices

CloneEntry(m, src, new, i) ==
  LET old == m.pd[src][i]
      t == kmalloc_page(m)
      ClonePage(n, j) ==
        LET page == kmalloc_page(n)
        IN IF n.pt[old][j] = NotPresent \/ page = 0
           THEN [n EXCEPT !.pt[t][j] = NotPresent]
           ELSE [Given(n, page) EXCEPT !.pt[t][j] = page]
  IN IF old = NotPresent THEN [m EXCEPT !.pd[new][i] = NotPresent]
     ELSE IF t = 0 THEN m
     ELSE [FoldLeft(ClonePage, Given(m, t), Upwards(0, PT_ENTRIES)) EXCEPT !.pd[new][i] = t]

(* Altered forms: the tables are shared, or every other page is lost. *)
clone_page_directory_shared(m, src) ==
  LET new == CreatedDirectory(m)
      created == vmm_create_page_directory(m)
  IN IF new = 0 \/ created.fault THEN created ELSE [created EXCEPT !.pd[new] = m.pd[src]]

clone_page_directory_without_user(m, src) ==
  LET new == CreatedDirectory(m)
      created == vmm_create_page_directory(m)
  IN IF new = 0 \/ created.fault THEN created
     ELSE [created EXCEPT !.pd[new] = [i \in Directory |->
             IF i < FORK_SHARED THEN m.pd[src][i] ELSE NotPresent]]

clone_page_directory_deep(m, src) ==
  LET new == CreatedDirectory(m)
      created == vmm_create_page_directory(m)
      shared == [created EXCEPT !.pd[new] = [i \in Directory |->
                   IF i < FORK_SHARED THEN m.pd[src][i] ELSE created.pd[new][i]]]
      Step(n, i) == CloneEntry(n, src, new, i)
  IN IF new = 0 \/ created.fault THEN created
     ELSE FoldLeft(Step, shared, Upwards(FORK_SHARED, PD_ENTRIES))

(* The stack loop of process_exec: it maps into the directory that is       *)
(* loaded, whatever process is being prepared.                              *)
MapStack(m, dir) ==
  LET Step(n, j) ==
        LET page == kmalloc_page(n)
        IN IF page = 0 \/ n.fault THEN n
           ELSE vmm_map_page(Given(n, page), dir, StackEntry, j, page)
  IN FoldLeft(Step, m, Upwards(PT_ENTRIES - STACK_PAGES, PT_ENTRIES))

-----------------------------------------------------------------------------
(* A call that leaves paging memory as m: a page fault on the way stops the *)
(* machine, otherwise the call completes.                                   *)
Completes(m, rest) ==
  /\ ~mm.fault
  /\ mm' = m
  /\ IF m.fault THEN UNCHANGED <<vars, page_directory, current_page_directory>>
                ELSE rest

(* There are more frames than identity-mapped ones, so the search for a     *)
(* frame meets one that faults before the bitmap is full: no process is     *)
(* left without a directory.                                                *)
fork ==
  LET src == page_directory[current_process]
      new == CreatedDirectory(mm)
  IN /\ current_process # NoProcess
     /\ src # 0
     /\ next_pid <= MaxPid
     /\ Completes(clone_page_directory_deep(mm, src),
          /\ IF new = 0 THEN sys_fork_fails ELSE sys_fork
          /\ page_directory' = [page_directory EXCEPT ![next_pid] = new]
          /\ UNCHANGED current_page_directory)

exec ==
  /\ current_process # NoProcess
  /\ Completes(MapStack(mm, current_page_directory),
       /\ sys_exec
       /\ UNCHANGED <<page_directory, current_page_directory>>)

(* The exec command: process_create, then process_exec on the new process.  *)
(* A process whose directory could not be created is kept all the same.     *)
command_exec ==
  LET created == vmm_create_page_directory(mm)
  IN /\ next_pid <= MaxPid
     /\ Completes(IF created.fault THEN created ELSE MapStack(created, current_page_directory),
          /\ cmd_exec
          /\ page_directory' = [page_directory EXCEPT ![next_pid] = CreatedDirectory(mm)]
          /\ UNCHANGED current_page_directory)

command_exec_fails ==
  /\ next_pid <= MaxPid
  /\ Completes(vmm_create_page_directory(mm),
       /\ cmd_exec_fails
       /\ page_directory' = [page_directory EXCEPT ![next_pid] = CreatedDirectory(mm)]
       /\ UNCHANGED current_page_directory)

(* free_process hands the directory to kfree, which finds no block header   *)
(* in front of a frame and returns: the frame stays in use.                 *)
wait_reaps(child) ==
  /\ ~mm.fault
  /\ sys_wait_reaps(child)
  /\ UNCHANGED <<mm, page_directory, current_page_directory>>

switch(next) ==
  /\ ~mm.fault
  /\ process_switch(next)
  /\ current_page_directory' =
       IF page_directory[next] = 0 THEN current_page_directory ELSE page_directory[next]
  /\ UNCHANGED <<mm, page_directory>>

(* What touches the table only.                                             *)
table_only ==
  /\ ~mm.fault
  /\ \/ \E code \in Codes : sys_exit(code)
     \/ sys_wait_blocks
     \/ \E pid \in Pids, signal \in Codes : sys_kill(pid, signal)
  /\ UNCHANGED <<mm, page_directory, current_page_directory>>

SpaceNext ==
  \/ fork
  \/ exec
  \/ command_exec
  \/ command_exec_fails
  \/ \E child \in Pids : wait_reaps(child)
  \/ \E next \in Pids : switch(next)
  \/ table_only

SpaceSpec == SpaceInit /\ [][SpaceNext]_space_vars

-----------------------------------------------------------------------------
Entry == Frames \cup {NotPresent}

SpaceTypeOK ==
  /\ mm.frame_bitmap \in [Frames -> {0, 1}]
  /\ mm.next_free_frame \in Frames
  /\ mm.pd \in [Frames -> [Directory -> Entry]]
  /\ mm.pt \in [Frames -> [Table -> Entry]]
  /\ mm.heap \subseteq HeapPages
  /\ mm.fault \in BOOLEAN
  /\ page_directory \in [Pids -> Frames]
  /\ current_page_directory \in Frames

Owners == {p \in process_list : page_directory[p] # 0}
Listed == {page_directory[p] : p \in Owners}

(* The kernel runs on with any directory it can load: each one, and the one *)
(* in CR3, maps every identity-mapped page to itself.                       *)
KernelStaysMapped ==
  \A d \in Listed \cup {current_page_directory} :
    \A i \in 0 .. IDENTITY - 1 : \A j \in Table :
      /\ mm.pd[d][i] # NotPresent
      /\ mm.pt[mm.pd[d][i]][j] = i * PT_ENTRIES + j

(* Fork gives the child memory of its own: no two uses of a frame among the *)
(* directories of the processes, the tables of their user entries and the   *)
(* pages those map.                                                         *)
UserEntries(d) == {i \in FORK_SHARED .. PD_ENTRIES - 1 : mm.pd[d][i] # NotPresent}
UserTables(d) == {mm.pd[d][i] : i \in UserEntries(d)}
UserPages(d) == {mm.pt[t][j] : t \in UserTables(d), j \in Table} \ {NotPresent}
SpaceOf(d) == {d} \cup UserTables(d) \cup UserPages(d)
Mapped(d) == {<<i, j>> \in UserEntries(d) \X Table : mm.pt[mm.pd[d][i]][j] # NotPresent}
MappedBy(p) == Mapped(page_directory[p])

SpacesArePrivate ==
  /\ \A p, q \in Owners :
       p # q => SpaceOf(page_directory[p]) \cap SpaceOf(page_directory[q]) = {}
  /\ \A d \in Listed :
       Cardinality(SpaceOf(d)) = 1 + Cardinality(UserEntries(d)) + Cardinality(Mapped(d))

(* A forked child maps exactly the user pages its parent maps, as long as   *)
(* the heap has a page for each of them and for their tables.               *)
ForkMapsTheSamePages ==
  [][\A p \in Owners : \A c \in Pids :
       /\ fork
       /\ c = next_pid
       /\ p = current_process
       /\ ~mm'.fault
       /\ CreatedDirectory(mm) # 0
       /\ Cardinality(mm.heap) >=
            Cardinality(UserEntries(page_directory[p])) + Cardinality(MappedBy(p))
       => MappedBy(c)' = MappedBy(p)]_space_vars
=============================================================================
