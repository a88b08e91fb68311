-------------------------------- MODULE Vmm --------------------------------
(***************************************************************************)
(* Physical frames, page directories and page tables: the operations of    *)
(* src/kernel/mm/vmm.c as operators on the memory they find.  Paging       *)
(* memory is a record:                                                     *)
(*   frame_bitmap     frame -> 1 (in use) or 0                             *)
(*   next_free_frame  where the next search starts                         *)
(*   pd, pt           what a frame holds, read as a page directory and as  *)
(*                    a page table: index -> frame, or NotPresent          *)
(*   heap             the page-sized, page-aligned pieces the kernel heap  *)
(*                    can still give (they lie in the kernel's frames)     *)
(*   fault            the kernel touched a frame outside the identity map; *)
(*                    the page fault handler stops the machine             *)
(* Directories and tables are read and written at their physical           *)
(* addresses, so only frames inside the identity map can serve as either.  *)
(***************************************************************************)
EXTENDS SequencesExt, Integers

CONSTANTS MAX_FRAMES,      \* frames of the bitmap
          KERNEL_FRAMES,   \* frames reserved for the kernel and its heap
          HeapPages,       \* those of them the heap can give out as pages
          PD_ENTRIES,      \* entries of a page directory
          PT_ENTRIES,      \* entries of a page table
          IDENTITY,        \* directory entries of the identity map
          KERNEL_ENTRIES   \* entries a new directory takes from the kernel's

ASSUME VmmAssumption ==
  /\ {MAX_FRAMES, KERNEL_FRAMES, PD_ENTRIES, PT_ENTRIES, IDENTITY, KERNEL_ENTRIES} \subseteq Nat
  /\ HeapPages \subseteq 1 .. KERNEL_FRAMES - 1
  /\ IDENTITY * PT_ENTRIES > KERNEL_FRAMES + IDENTITY + 1
  /\ IDENTITY * PT_ENTRIES < MAX_FRAMES
  /\ IDENTITY <= KERNEL_ENTRIES
  /\ KERNEL_ENTRIES <= PD_ENTRIES

Frames == 0 .. MAX_FRAMES - 1
Directory == 0 .. PD_ENTRIES - 1
Table == 0 .. PT_ENTRIES - 1
NotPresent == -1

Blank(entries) == [i \in entries |-> NotPresent]

(* The frames the kernel reaches at their physical address.                 *)
IdentityMapped(f) == f < IDENTITY * PT_ENTRIES

(* alloc_frame: the first clear bit, starting at next_free_frame and going  *)
(* around.  There is none when every bit is set; frame 0 is the answer then.*)
alloc_frame(m) ==
  LET Free == {i \in Frames : m.frame_bitmap[(m.next_free_frame + i) % MAX_FRAMES] = 0}
  IN IF Free = {} THEN 0 ELSE (m.next_free_frame + Min(Free)) % MAX_FRAMES

Allocated(m, f) ==
  [m EXCEPT !.frame_bitmap[f] = 1, !.next_free_frame = (f + 1) % MAX_FRAMES]

(* vmm_get_page with create: the directory's entry i has a page table       *)
(* afterwards, unless there was no frame for it.                            *)
WithTable(m, dir, i) ==
  LET f == alloc_frame(m)
      a == Allocated(m, f)
  IN IF m.pd[dir][i] # NotPresent \/ f = 0 THEN m
     ELSE IF ~IdentityMapped(f) THEN [a EXCEPT !.fault = TRUE]
     ELSE [a EXCEPT !.pt[f] = Blank(Table), !.pd[dir][i] = f]

vmm_map_page(m, dir, i, j, phys) ==
  LET t == WithTable(m, dir, i)
  IN IF t.fault \/ t.pd[dir][i] = NotPresent THEN t
     ELSE [t EXCEPT !.pt[t.pd[dir][i]][j] = phys]

(* vmm_init: the kernel's directory and the tables of the identity map are  *)
(* the first frames after the reserved ones.                                *)
KernelDirectory == KERNEL_FRAMES

vmm_init ==
  LET TableOf(i) == KERNEL_FRAMES + 1 + i
  IN [frame_bitmap |-> [f \in Frames |-> IF f <= KERNEL_FRAMES + IDENTITY THEN 1 ELSE 0],
      next_free_frame |-> KERNEL_FRAMES + IDENTITY + 1,
      pd |-> [f \in Frames |->
                IF f = KernelDirectory
                THEN [i \in Directory |-> IF i < IDENTITY THEN TableOf(i) ELSE NotPresent]
                ELSE Blank(Directory)],
      pt |-> [f \in Frames |->
                [j \in Table |->
                   IF f > KERNEL_FRAMES /\ f <= KERNEL_FRAMES + IDENTITY
                   THEN (f - KERNEL_FRAMES - 1) * PT_ENTRIES + j
                   ELSE NotPresent]],
      heap |-> HeapPages,
      fault |-> FALSE]

(* vmm_create_page_directory: a fresh frame with the kernel's mappings in   *)
(* it.  CreatedDirectory is what the call returns, 0 for NULL.              *)
vmm_create_page_directory_empty(m) ==
  LET f == alloc_frame(m)
      a == Allocated(m, f)
  IN IF f = 0 THEN m
     ELSE IF ~IdentityMapped(f) THEN [a EXCEPT !.fault = TRUE]
     ELSE [a EXCEPT !.pd[f] = Blank(Directory)]

vmm_create_page_directory(m) ==
  LET f == alloc_frame(m)
      a == Allocated(m, f)
  IN IF f = 0 THEN m
     ELSE IF ~IdentityMapped(f) THEN [a EXCEPT !.fault = TRUE]
     ELSE [a EXCEPT !.pd[f] = [i \in Directory |->
              IF i < KERNEL_ENTRIES THEN m.pd[KernelDirectory][i] ELSE NotPresent]]

CreatedDirectory(m) == alloc_frame(m)

(* kmalloc_aligned(4096, 4096), as paging uses it: a page of the heap, 0    *)
(* for NULL.  Nothing of this kind is ever given back.                      *)
kmalloc_page(m) == IF m.heap = {} THEN 0 ELSE Min(m.heap)
Given(m, page) == [m EXCEPT !.heap = @ \ {page}]
=============================================================================
