-------------------------------- MODULE Heap --------------------------------
(***************************************************************************)
(* The kernel heap: src/kernel/mm/heap.c.                                  *)
(*                                                                         *)
(* The linked list of block headers from heap_start on has count entries;  *)
(* addr[i], size[i] and is_free[i] describe the i-th in the order of the   *)
(* next pointers, an address being an offset from heap_start.  That the    *)
(* list tiles the heap in address order is not built into the model:       *)
(* kmalloc computes the new header's address and kfree extends a block     *)
(* over whatever its next pointer names.  Callers free a pointer they      *)
(* hold, once.                                                             *)
(***************************************************************************)
EXTENDS Integers

CONSTANTS
  HEAP_SIZE,    \* 1 MB in the code
  HEADER,       \* sizeof(heap_block_t), 16
  MIN_SPLIT,    \* 16: the least a split must leave
  ALIGN,        \* 4
  WORD,         \* 2^32: size_t arithmetic wraps
  Sizes,        \* the sizes callers ask kmalloc for
  Alignments    \* the alignments callers ask kmalloc_aligned for

ASSUME GeometryAssumption ==
  /\ HEADER \in Nat \ {0} /\ MIN_SPLIT \in Nat /\ ALIGN \in Nat \ {0}
  /\ HEAP_SIZE \in Nat /\ HEAP_SIZE > HEADER
  /\ WORD \in Nat /\ WORD >= HEAP_SIZE
(* The sizes asked for do not wrap around when they are rounded up: true of *)
(* the kernel's own calls, and assumed of what sys_malloc hands on from an  *)
(* application.                                                             *)
ASSUME SizesAssumption ==
  /\ Sizes \subseteq Nat /\ Alignments \subseteq Nat \ {0}
  /\ \A s \in Sizes : s + ALIGN <= WORD
  /\ \A s \in Sizes, a \in Alignments : s + a + ALIGN <= WORD

VARIABLES
  count, addr, size, is_free,
  live,     \* the blocks callers hold, by address
  ptr,      \* the pointer each of them was returned as
  asked,    \* the size each of them was asked for
  moved     \* those that kmalloc_aligned allocated

vars == <<count, addr, size, is_free, live, ptr, asked, moved>>

Index == 1 .. count

TypeOK ==
  /\ count \in Nat
  /\ addr \in [Index -> Nat] /\ size \in [Index -> Nat] /\ is_free \in [Index -> {0, 1}]
  /\ live \subseteq Nat /\ moved \subseteq live
  /\ ptr \in [live -> Nat] /\ asked \in [live -> Nat]

heap_init ==
  /\ count = 1
  /\ addr = [i \in 1 .. 1 |-> 0]
  /\ size = [i \in 1 .. 1 |-> HEAP_SIZE - HEADER]
  /\ is_free = [i \in 1 .. 1 |-> 1]
  /\ live = {} /\ moved = {}
  /\ ptr = [b \in {} |-> 0] /\ asked = [b \in {} |-> 0]

-----------------------------------------------------------------------------
(* (n + 3) & ~3 on a size_t.                                                *)
RoundUp(n) == LET sum == (n + ALIGN - 1) % WORD IN sum - (sum % ALIGN)

Fits_ignoring_is_free(i, n) == size[i] >= n

Fits(i, n) == is_free[i] = 1 /\ size[i] >= n

FirstFit(i, n) == Fits(i, n) /\ \A j \in 1 .. i - 1 : ~Fits(j, n)

(* A field of the list with the value v at i and the value w inserted       *)
(* behind it.                                                               *)
Inserted(f, i, v, w) ==
  [j \in 1 .. count + 1 |->
     IF j < i THEN f[j] ELSE IF j = i THEN v ELSE IF j = i + 1 THEN w ELSE f[j - 1]]

(* Block i is taken for n bytes, the rest split off as a new free block.    *)
Split_overlapping_header(i, n) ==
  /\ count' = count + 1
  /\ addr' = Inserted(addr, i, addr[i], addr[i] + n)
  /\ size' = Inserted(size, i, n, size[i] - n)
  /\ is_free' = Inserted(is_free, i, 0, 1)

Split(i, n) ==
  /\ count' = count + 1
  /\ addr' = Inserted(addr, i, addr[i], addr[i] + HEADER + n)
  /\ size' = Inserted(size, i, n, size[i] - n - HEADER)
  /\ is_free' = Inserted(is_free, i, 0, 1)

Mark(i, free) ==
  /\ is_free' = [is_free EXCEPT ![i] = free]
  /\ UNCHANGED <<count, addr, size>>

Take(i, n) == IF size[i] > n + HEADER + MIN_SPLIT THEN Split(i, n) ELSE Mark(i, 0)

(* The caller holds block b from now on.                                    *)
Hold(b, p, n) ==
  /\ live' = live \cup {b}
  /\ ptr' = [x \in live \cup {b} |-> IF x = b THEN p ELSE ptr[x]]
  /\ asked' = [x \in live \cup {b} |-> IF x = b THEN n ELSE asked[x]]

kmalloc(n) ==
  /\ n # 0
  /\ \E i \in Index :
       /\ FirstFit(i, RoundUp(n))
       /\ Take(i, RoundUp(n))
       /\ Hold(addr[i], addr[i] + HEADER, n)
  /\ UNCHANGED moved

AlignedPtr(p, alignment) == ((p + alignment - 1) \div alignment) * alignment

(* kmalloc(n + alignment), the pointer rounded up to the alignment.         *)
kmalloc_aligned_too_small(n, alignment) ==
  \E i \in Index :
    /\ FirstFit(i, RoundUp(n))
    /\ Take(i, RoundUp(n))
    /\ Hold(addr[i], AlignedPtr(addr[i] + HEADER, alignment), n)
    /\ moved' = moved \cup {addr[i]}

kmalloc_aligned(n, alignment) ==
  \E i \in Index :
    /\ FirstFit(i, RoundUp(n + alignment))
    /\ Take(i, RoundUp(n + alignment))
    /\ Hold(addr[i], AlignedPtr(addr[i] + HEADER, alignment), n)
    /\ moved' = moved \cup {addr[i]}

(* A field of the list with the value v at i and the entry behind it gone.  *)
Removed(f, i, v) ==
  [j \in 1 .. count - 1 |-> IF j < i THEN f[j] ELSE IF j = i THEN v ELSE f[j + 1]]

(* Block i is freed together with the block its next pointer names.         *)
Merge(i) ==
  /\ count' = count - 1
  /\ addr' = Removed(addr, i, addr[i])
  /\ size' = Removed(size, i, size[i] + HEADER + size[i + 1])
  /\ is_free' = Removed(is_free, i, 1)

Coalesce_unconditionally(i) == IF i < count THEN Merge(i) ELSE Mark(i, 1)

Coalesce(i) ==
  IF i < count /\ is_free[i + 1] = 1 THEN Merge(i) ELSE Mark(i, 1)

(* kfree finds the header in front of the pointer.  In front of a pointer   *)
(* that kmalloc_aligned moved there is none; no caller frees such a pointer.*)
kfree(b) ==
  /\ b \notin moved
  /\ \E i \in Index : addr[i] = ptr[b] - HEADER /\ Coalesce(i)
  /\ live' = live \ {b}
  /\ ptr' = [x \in live \ {b} |-> ptr[x]]
  /\ asked' = [x \in live \ {b} |-> asked[x]]
  /\ UNCHANGED moved

Next ==
  \/ \E n \in Sizes : kmalloc(n)
  \/ \E n \in Sizes, alignment \in Alignments : kmalloc_aligned(n, alignment)
  \/ \E b \in live : kfree(b)

Spec == heap_init /\ [][Next]_vars

-----------------------------------------------------------------------------
EndOf(i) == addr[i] + HEADER + size[i]

(* The list of blocks tiles the heap: it begins at its start, every block   *)
(* begins where the one before it ends, the last one ends with the heap.    *)
Tiled ==
  /\ count >= 1
  /\ addr[1] = 0
  /\ \A i \in 1 .. count - 1 : addr[i + 1] = EndOf(i)
  /\ EndOf(count) = HEAP_SIZE

(* Every allocation a caller holds is inside a block of the list that is    *)
(* marked as taken: no free block is held by anyone.                        *)
LiveInBlocks ==
  \A b \in live : \E i \in Index :
    /\ addr[i] = b /\ is_free[i] = 0
    /\ addr[i] + HEADER <= ptr[b]
    /\ ptr[b] + asked[b] <= EndOf(i)

(* No two allocations share a byte.                                         *)
Disjoint ==
  \A a, b \in live : a # b => \/ ptr[a] + asked[a] <= ptr[b]
                             \/ ptr[b] + asked[b] <= ptr[a]

(* The inductive strengthening.  Blocks lie in address order (Tiled speaks  *)
(* of neighbours only), and a pointer that was not moved is right behind    *)
(* its block's header, so that kfree finds the block.                       *)
Ordered == \A i, j \in Index : i < j => EndOf(i) <= addr[j]

UnmovedPtrs == \A b \in live \ moved : ptr[b] = b + HEADER

IInv == TypeOK /\ Tiled /\ Ordered /\ LiveInBlocks /\ UnmovedPtrs

AllocatorOf == INSTANCE Allocator
                 WITH live <- {[ptr |-> ptr[b], size |-> asked[b]] : b \in live}

(* The heap gives every piece of memory to one holder at a time.            *)
ImplementsAllocator == AllocatorOf!Spec
=============================================================================
