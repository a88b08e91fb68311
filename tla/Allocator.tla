----------------------------- MODULE Allocator -----------------------------
(***************************************************************************)
(* What the kernel's heap promises (src/kernel/mm/heap.h): memory handed   *)
(* out lies inside the heap and belongs to one holder until it is freed.   *)
(***************************************************************************)
EXTENDS Naturals

CONSTANTS HEAP_SIZE, Sizes

VARIABLE live    \* the allocations: [ptr, size] records

Overlap(a, b) == a.ptr < b.ptr + b.size /\ b.ptr < a.ptr + a.size

Init == live = {}

Alloc(a) ==
  /\ a.ptr + a.size <= HEAP_SIZE
  /\ \A b \in live : ~Overlap(a, b)
  /\ live' = live \cup {a}

Free(a) == live' = live \ {a}

Next ==
  \/ \E ptr \in 0 .. HEAP_SIZE, size \in Sizes : Alloc([ptr |-> ptr, size |-> size])
  \/ \E a \in live : Free(a)

Spec == Init /\ [][Next]_live
=============================================================================
