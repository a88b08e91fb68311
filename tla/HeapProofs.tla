----------------------------- MODULE HeapProofs -----------------------------
(***************************************************************************)
(* Proofs about the kernel heap (Heap.tla) for a heap of any size.         *)
(***************************************************************************)
EXTENDS Heap, TLAPS

(* A size that does not wrap around is rounded up, never down.              *)
LEMMA RoundUpEnough ==
  ASSUME NEW s \in Nat, s + ALIGN <= WORD
  PROVE  RoundUp(s) \in Nat /\ RoundUp(s) >= s
<1> DEFINE sum == (s + ALIGN - 1) % WORD
<1>1. s + ALIGN - 1 \in 0 .. WORD - 1
  BY GeometryAssumption
<1>2. sum = s + ALIGN - 1
  BY <1>1, GeometryAssumption
<1> HIDE DEF sum
<1>3. sum \in Nat /\ sum % ALIGN \in 0 .. ALIGN - 1
  BY <1>1, <1>2, GeometryAssumption
<1>4. sum - (sum % ALIGN) \in Int /\ sum - (sum % ALIGN) >= s
  BY <1>2, <1>3, GeometryAssumption
<1> QED
  BY <1>4 DEF RoundUp, sum

(* An aligned pointer lies at or behind the pointer kmalloc returned, less  *)
(* than one alignment away.                                                 *)
LEMMA AlignedPtrClose ==
  ASSUME NEW p \in Nat, NEW a \in Nat \ {0}
  PROVE  /\ AlignedPtr(p, a) \in Nat
         /\ p <= AlignedPtr(p, a) /\ AlignedPtr(p, a) < p + a
<1> DEFINE x == p + a - 1
           q == x \div a
           r == x % a
<1>1. x \in Nat
  OBVIOUS
<1> HIDE DEF x
<1>2. q \in Nat /\ r \in 0 .. a - 1 /\ x = a * q + r
  BY <1>1
<1> HIDE DEF q, r
<1>3. a * q \in Nat /\ a * q = q * a
  BY <1>2
<1>4. q * a = p + a - 1 - r
  BY <1>2, <1>3 DEF x
<1> QED
  BY <1>2, <1>3, <1>4 DEF AlignedPtr, q, x

-----------------------------------------------------------------------------
Layout == /\ count \in Nat
          /\ addr \in [Index -> Nat] /\ size \in [Index -> Nat]
          /\ is_free \in [Index -> {0, 1}]
          /\ Tiled /\ Ordered

LEMMA InitEstablishes == heap_init => IInv
BY GeometryAssumption
   DEF heap_init, IInv, TypeOK, Tiled, Ordered, LiveInBlocks, UnmovedPtrs, EndOf, Index

(* Splitting a block keeps the list a tiling of the heap in address order,  *)
(* and every other block where and what it was.                             *)
LEMMA SplitKeepsLayout ==
  ASSUME Layout, NEW i \in Index, NEW n \in Nat,
         size[i] > n + HEADER + MIN_SPLIT, Split(i, n)
  PROVE  /\ Layout'
         /\ i \in Index' /\ addr'[i] = addr[i] /\ is_free'[i] = 0 /\ size'[i] = n
         /\ \A j \in Index \ {i} : \E k \in Index' :
              addr'[k] = addr[j] /\ size'[k] = size[j] /\ is_free'[k] = is_free[j]
<1> USE GeometryAssumption DEF Index
<1>1. /\ count \in Nat /\ count' = count + 1 /\ i \in 1 .. count
      /\ \A j \in 1 .. count : addr[j] \in Nat /\ size[j] \in Nat /\ is_free[j] \in {0, 1}
  BY DEF Layout, Split
<1>2. addr' \in [1 .. count + 1 -> Nat]
  BY <1>1 DEF Split, Inserted
<1>3. size' \in [1 .. count + 1 -> Nat]
  <2>1. size[i] - n - HEADER \in Nat
    BY <1>1
  <2> QED
    BY <1>1, <2>1 DEF Split, Inserted
<1>4. is_free' \in [1 .. count + 1 -> {0, 1}] 
  BY <1>1 DEF Split, Inserted
<1>5. /\ count' \in Nat
      /\ addr' \in [1 .. count' -> Nat] /\ size' \in [1 .. count' -> Nat]
      /\ is_free' \in [1 .. count' -> {0, 1}]
  BY <1>1, <1>2, <1>3, <1>4
<1>6. \A j \in 1 .. i : addr'[j] = addr[j] 
  BY <1>1 DEF Split, Inserted
<1>7. \A j \in i+2 .. count+1 : addr'[j] = addr[j-1] 
  BY <1>1 DEF Split, Inserted
<1>8. \A j \in 1 .. i-1 : size'[j] = size[j] 
  BY <1>1 DEF Split, Inserted
<1>9. \A j \in i+2 .. count+1 : size'[j] = size[j-1] 
  BY <1>1 DEF Split, Inserted
<1>10. addr'[i + 1] = addr[i] + HEADER + n /\ size'[i] = n /\ size'[i + 1] = size[i] - n - HEADER
  BY <1>1 DEF Split, Inserted
<1>11. Tiled'
  <2>1. count >= 1 /\ addr[1] = 0 /\ addr[count] + HEADER + size[count] = HEAP_SIZE
    BY DEF Layout, Tiled, EndOf
  <2>2. \A j \in 1 .. count - 1 : addr[j + 1] = addr[j] + HEADER + size[j]
    BY DEF Layout, Tiled, EndOf
  <2>3. ASSUME NEW j \in 1 .. count PROVE addr'[j + 1] = addr'[j] + HEADER + size'[j]
    <3>1. CASE j < i
      <4>1. addr'[j + 1] = addr[j + 1] /\ addr'[j] = addr[j] /\ size'[j] = size[j]
        BY <3>1, <1>1, <1>6, <1>8
      <4>2. addr[j + 1] = addr[j] + HEADER + size[j]
        BY <3>1, <2>2, <1>1
      <4> QED
        BY <4>1, <4>2
    <3>2. CASE j = i
      BY <3>2, <1>1, <1>6, <1>10
    <3>3. CASE j = i + 1
      <4>1. addr'[j + 1] = addr[i + 1]
        BY <3>3, <1>1, <1>7
      <4>2. addr[i + 1] = addr[i] + HEADER + size[i]
        BY <3>3, <1>1, <2>2
      <4> QED
        BY <4>1, <4>2, <3>3, <1>1, <1>10
    <3>4. CASE j > i + 1
      <4>1. addr'[j + 1] = addr[j] /\ addr'[j] = addr[j - 1] /\ size'[j] = size[j - 1]
        BY <3>4, <1>1, <1>7, <1>9
      <4>2. addr[j] = addr[j - 1] + HEADER + size[j - 1]
        BY <3>4, <1>1, <2>2
      <4> QED
        BY <4>1, <4>2
    <3> QED
      BY <3>1, <3>2, <3>3, <3>4, <1>1
  <2>4. addr'[count'] + HEADER + size'[count'] = HEAP_SIZE
    <3>1. CASE i = count
      BY <3>1, <1>1, <1>10, <2>1
    <3>2. CASE i < count
      BY <3>2, <1>1, <1>7, <1>9, <2>1
    <3> QED
      BY <3>1, <3>2, <1>1
  <2>5. count' >= 1 /\ addr'[1] = 0
    BY <1>1, <1>6, <2>1
  <2> QED
    BY <2>3, <2>4, <2>5, <1>1 DEF Tiled, EndOf
<1>12. Ordered'
  <2>1. \A j, k \in 1 .. count : j < k => addr[j] + HEADER + size[j] <= addr[k]
    BY DEF Layout, Ordered, EndOf
  <2>2. ASSUME NEW j \in 1 .. count + 1, NEW k \in 1 .. count + 1, j < k
        PROVE  addr'[j] + HEADER + size'[j] <= addr'[k]
    <3> DEFINE u == IF j <= i THEN j ELSE j - 1
               v == IF k <= i THEN k ELSE k - 1
    <3>1. u \in 1 .. count /\ v \in 1 .. count /\ (u < v \/ (j = i /\ k = i + 1))
      BY <1>1, <2>2
    <3>2. addr'[j] + HEADER + size'[j] <= addr[u] + HEADER + size[u]
      <4>1. CASE j < i
        BY <4>1, <1>1, <1>6, <1>8
      <4>2. CASE j = i
        BY <4>2, <1>1, <1>6, <1>10
      <4>3. CASE j = i + 1
        BY <4>3, <1>1, <1>10
      <4>4. CASE j > i + 1
        BY <4>4, <1>1, <1>7, <1>9
      <4> QED
        BY <4>1, <4>2, <4>3, <4>4, <1>1
    <3>3. addr[v] <= addr'[k]
      <4>1. CASE k <= i
        BY <4>1, <1>1, <1>6
      <4>2. CASE k = i + 1
        BY <4>2, <1>1, <1>10
      <4>3. CASE k > i + 1
        BY <4>3, <1>1, <1>7
      <4> QED
        BY <4>1, <4>2, <4>3, <1>1
    <3>4. addr'[j] \in Nat /\ size'[j] \in Nat /\ addr'[k] \in Nat
      BY <1>2, <1>3
    <3>5. CASE u < v
      <4>1. addr[u] + HEADER + size[u] <= addr[v]
        BY <3>1, <3>5, <2>1
      <4>2. addr[u] \in Nat /\ size[u] \in Nat /\ addr[v] \in Nat
        BY <3>1, <1>1
      <4> HIDE DEF u, v
      <4> QED
        BY <3>2, <3>3, <3>4, <4>1, <4>2
    <3>6. CASE j = i /\ k = i + 1
      BY <3>6, <1>1, <1>6, <1>10
    <3> QED
      BY <3>1, <3>5, <3>6
  <2> QED
    BY <2>2, <1>1 DEF Ordered, EndOf
<1>13. ASSUME NEW j \in Index \ {i}
       PROVE  \E k \in Index' :
                addr'[k] = addr[j] /\ size'[k] = size[j] /\ is_free'[k] = is_free[j]
  <2> DEFINE k == IF j < i THEN j ELSE j + 1
  <2>1. k \in Index' /\ addr'[k] = addr[j] /\ size'[k] = size[j] /\ is_free'[k] = is_free[j]
    BY DEF Layout, Split, Inserted
  <2> QED
    BY <2>1
<1>14. i \in Index' /\ is_free'[i] = 0
  BY <1>1 DEF Split, Inserted
<1>15. Layout'
  BY <1>5, <1>11, <1>12 DEF Layout
<1>16. addr'[i] = addr[i] /\ size'[i] = n
  BY <1>1, <1>6, <1>10
<1> QED
  BY <1>13, <1>14, <1>15, <1>16

(* So does marking a block ...                                              *)
LEMMA MarkKeepsLayout ==
  ASSUME Layout, NEW i \in Index, NEW f \in {0, 1}, Mark(i, f)
  PROVE  /\ Layout' /\ Index' = Index
         /\ addr' = addr /\ size' = size /\ is_free'[i] = f
         /\ \A j \in Index \ {i} : is_free'[j] = is_free[j]
BY DEF Layout, Mark, Tiled, Ordered, EndOf, Index

(* ... and merging one with the block behind it.                            *)
LEMMA MergeKeepsLayout ==
  ASSUME Layout, NEW i \in Index, i < count, Merge(i)
  PROVE  /\ Layout'
         /\ \A j \in Index \ {i, i + 1} : \E k \in Index' :
              addr'[k] = addr[j] /\ size'[k] = size[j] /\ is_free'[k] = is_free[j]
<1> USE GeometryAssumption DEF Index
<1>1. /\ count \in Nat /\ count' = count - 1 /\ i \in 1 .. count - 1
      /\ \A j \in 1 .. count : addr[j] \in Nat /\ size[j] \in Nat /\ is_free[j] \in {0, 1}
  BY DEF Layout, Merge
<1>2. addr' \in [1 .. count - 1 -> Nat]
  BY <1>1 DEF Merge, Removed
<1>3. size' \in [1 .. count - 1 -> Nat]
  BY <1>1 DEF Merge, Removed
<1>4. is_free' \in [1 .. count - 1 -> {0, 1}]
  BY <1>1 DEF Merge, Removed
<1>5. /\ count' \in Nat
      /\ addr' \in [1 .. count' -> Nat] /\ size' \in [1 .. count' -> Nat]
      /\ is_free' \in [1 .. count' -> {0, 1}]
  BY <1>1, <1>2, <1>3, <1>4
<1>6. \A j \in 1 .. i : addr'[j] = addr[j]
  BY <1>1 DEF Merge, Removed
<1>7. \A j \in i + 1 .. count - 1 : addr'[j] = addr[j + 1]
  BY <1>1 DEF Merge, Removed
<1>8. \A j \in 1 .. i - 1 : size'[j] = size[j]
  BY <1>1 DEF Merge, Removed
<1>9. \A j \in i + 1 .. count - 1 : size'[j] = size[j + 1]
  BY <1>1 DEF Merge, Removed
<1>10. size'[i] = size[i] + HEADER + size[i + 1]
  BY <1>1 DEF Merge, Removed
<1>11. count >= 1 /\ addr[1] = 0 /\ addr[count] + HEADER + size[count] = HEAP_SIZE
  BY DEF Layout, Tiled, EndOf
<1>12. \A j \in 1 .. count - 1 : addr[j + 1] = addr[j] + HEADER + size[j]
  BY DEF Layout, Tiled, EndOf
<1>13. addr'[i] + HEADER + size'[i] = addr[i + 1] + HEADER + size[i + 1]
  BY <1>1, <1>6, <1>10, <1>12
<1>14. Tiled'
  <2>1. ASSUME NEW j \in 1 .. count - 2 PROVE addr'[j + 1] = addr'[j] + HEADER + size'[j]
    <3>1. CASE j < i
      BY <3>1, <1>1, <1>6, <1>8, <1>12
    <3>2. CASE j = i
      <4>1. addr'[i + 1] = addr[i + 2] /\ addr[i + 2] = addr[i + 1] + HEADER + size[i + 1]
        BY <3>2, <1>1, <1>7, <1>12
      <4> QED
        BY <4>1, <3>2, <1>13
    <3>3. CASE j > i
      <4>1. addr'[j + 1] = addr[j + 2] /\ addr'[j] = addr[j + 1] /\ size'[j] = size[j + 1]
        BY <3>3, <1>1, <1>7, <1>9
      <4>2. addr[j + 2] = addr[j + 1] + HEADER + size[j + 1]
        BY <3>3, <1>1, <1>12
      <4> QED
        BY <4>1, <4>2
    <3> QED
      BY <3>1, <3>2, <3>3, <1>1
  <2>2. addr'[count'] + HEADER + size'[count'] = HEAP_SIZE
    <3>1. CASE i = count - 1
      BY <3>1, <1>1, <1>11, <1>13
    <3>2. CASE i < count - 1
      BY <3>2, <1>1, <1>7, <1>9, <1>11
    <3> QED
      BY <3>1, <3>2, <1>1
  <2>3. count' >= 1 /\ addr'[1] = 0
    BY <1>1, <1>6, <1>11
  <2> QED
    BY <2>1, <2>2, <2>3, <1>1 DEF Tiled, EndOf
<1>15. Ordered'
  <2>1. \A j, k \in 1 .. count : j < k => addr[j] + HEADER + size[j] <= addr[k]
    BY DEF Layout, Ordered, EndOf
  <2>2. ASSUME NEW j \in 1 .. count - 1, NEW k \in 1 .. count - 1, j < k
        PROVE  addr'[j] + HEADER + size'[j] <= addr'[k]
    <3> DEFINE u == IF j < i THEN j ELSE j + 1
               v == IF k <= i THEN k ELSE k + 1
    <3>1. u \in 1 .. count /\ v \in 1 .. count /\ u < v
      BY <1>1, <2>2
    <3>2. addr'[j] + HEADER + size'[j] = addr[u] + HEADER + size[u]
      <4>1. CASE j < i
        BY <4>1, <1>1, <1>6, <1>8
      <4>2. CASE j = i
        BY <4>2, <1>13
      <4>3. CASE j > i
        BY <4>3, <1>1, <1>7, <1>9
      <4> QED
        BY <4>1, <4>2, <4>3, <1>1
    <3>3. addr'[k] = addr[v]
      BY <1>1, <1>6, <1>7
    <3> QED
      BY <3>1, <3>2, <3>3, <2>1
  <2> QED
    BY <2>2, <1>1 DEF Ordered, EndOf
<1>16. ASSUME NEW j \in Index \ {i, i + 1}
       PROVE  \E k \in Index' :
                addr'[k] = addr[j] /\ size'[k] = size[j] /\ is_free'[k] = is_free[j]
  <2> DEFINE k == IF j < i THEN j ELSE j - 1
  <2>1. k \in Index' /\ addr'[k] = addr[j] /\ size'[k] = size[j] /\ is_free'[k] = is_free[j]
    BY DEF Layout, Merge, Removed
  <2> QED
    BY <2>1
<1>17. Layout'
  BY <1>5, <1>14, <1>15 DEF Layout
<1> QED
  BY <1>16, <1>17

-----------------------------------------------------------------------------
LEMMA IInvLayout == IInv => Layout
BY DEF IInv, TypeOK, Layout

LEMMA AddressesDiffer ==
  ASSUME Layout, NEW i \in Index, NEW j \in Index, addr[i] = addr[j]
  PROVE  i = j
<1>1. addr[i] \in Nat /\ addr[j] \in Nat /\ size[i] \in Nat /\ size[j] \in Nat
  BY DEF Layout
<1>2. /\ i < j => addr[i] + HEADER + size[i] <= addr[j]
      /\ j < i => addr[j] + HEADER + size[j] <= addr[i]
  BY DEF Layout, Ordered, EndOf
<1> QED
  BY <1>1, <1>2, GeometryAssumption DEF Index, Layout

(* An allocation that survives the change of the list keeps its memory:     *)
(* its block is still there, as large as it was, and taken.                 *)
LEMMA SurvivorStays ==
  ASSUME IInv, NEW b \in live,
         NEW i \in Index, addr[i] = b, is_free[i] = 0,
         b + HEADER <= ptr[b], ptr[b] + asked[b] <= EndOf(i),
         NEW k \in Index', addr'[k] = addr[i], size'[k] = size[i],
         is_free'[k] = is_free[i], ptr'[b] = ptr[b], asked'[b] = asked[b]
  PROVE  /\ addr'[k] = b /\ is_free'[k] = 0
         /\ addr'[k] + HEADER <= ptr'[b]
         /\ ptr'[b] + asked'[b] <= EndOf(k)'
BY DEF EndOf

(* Taking a free block, and handing out a piece of it, preserves the        *)
(* invariant.                                                               *)
LEMMA TakePreserves ==
  ASSUME IInv, NEW i \in Index, NEW n \in Nat, Fits(i, n), Take(i, n),
         NEW p \in Nat, NEW m \in Nat,
         addr[i] + HEADER <= p, p + m <= addr[i] + HEADER + n,
         Hold(addr[i], p, m),
         \/ p = addr[i] + HEADER /\ moved' = moved
         \/ moved' = moved \cup {addr[i]}
  PROVE  IInv'
<1>1. Layout /\ addr[i] \in Nat /\ size[i] \in Nat /\ size[i] >= n /\ is_free[i] = 1
  BY IInvLayout DEF Layout, Fits
<1>2. addr[i] \notin live
  <2>1. SUFFICES ASSUME addr[i] \in live PROVE FALSE
    OBVIOUS
  <2>2. PICK j \in Index : addr[j] = addr[i] /\ is_free[j] = 0
    BY <2>1 DEF IInv, LiveInBlocks
  <2> QED
    BY <2>2, <1>1, AddressesDiffer
<1>3. /\ Layout'
      /\ i \in Index' /\ addr'[i] = addr[i] /\ is_free'[i] = 0 /\ size'[i] >= n
      /\ size'[i] \in Nat
      /\ \A j \in Index \ {i} : \E k \in Index' :
           addr'[k] = addr[j] /\ size'[k] = size[j] /\ is_free'[k] = is_free[j]
  <2>1. CASE size[i] > n + HEADER + MIN_SPLIT
    <3>1. Split(i, n)
      BY <2>1 DEF Take
    <3> QED
      BY <3>1, <2>1, <1>1, SplitKeepsLayout
  <2>2. CASE ~(size[i] > n + HEADER + MIN_SPLIT)
    <3>1. Mark(i, 0)
      BY <2>2 DEF Take
    <3> QED
      BY <3>1, <1>1, MarkKeepsLayout
  <2> QED
    BY <2>1, <2>2
<1>4. /\ live' = live \cup {addr[i]}
      /\ ptr'[addr[i]] = p /\ asked'[addr[i]] = m
      /\ \A b \in live : ptr'[b] = ptr[b] /\ asked'[b] = asked[b]
  BY <1>2 DEF Hold
<1>5. TypeOK'
  <2>1. live \subseteq Nat /\ moved \subseteq live /\ ptr \in [live -> Nat] /\ asked \in [live -> Nat]
    BY DEF IInv, TypeOK
  <2>2. live' \subseteq Nat /\ moved' \subseteq live'
    BY <2>1, <1>1, <1>4
  <2>3. ptr' \in [live' -> Nat] /\ asked' \in [live' -> Nat]
    BY <2>1, <1>1 DEF Hold
  <2> QED
    BY <2>2, <2>3, <1>3 DEF TypeOK, Layout
<1>6. LiveInBlocks'
  <2>1. SUFFICES ASSUME NEW b \in live'
                 PROVE  \E k \in Index' : /\ addr'[k] = b /\ is_free'[k] = 0
                                         /\ addr'[k] + HEADER <= ptr'[b]
                                         /\ ptr'[b] + asked'[b] <= EndOf(k)'
    BY DEF LiveInBlocks
  <2>2. CASE b = addr[i]
    <3>1. addr'[i] + HEADER <= ptr'[b] /\ ptr'[b] + asked'[b] <= addr'[i] + HEADER + size'[i]
      BY <2>2, <1>1, <1>3, <1>4, GeometryAssumption
    <3> QED
      BY <3>1, <2>2, <1>3 DEF EndOf
  <2>3. CASE b \in live
    <3>1. PICK j \in Index : /\ addr[j] = b /\ is_free[j] = 0
                             /\ addr[j] + HEADER <= ptr[b] /\ ptr[b] + asked[b] <= EndOf(j)
      BY <2>3 DEF IInv, LiveInBlocks
    <3>2. PICK k \in Index' : /\ addr'[k] = addr[j] /\ size'[k] = size[j]
                              /\ is_free'[k] = is_free[j]
      BY <3>1, <2>3, <1>1, <1>3
    <3> QED
      BY <3>1, <3>2, <2>3, <1>4, SurvivorStays
  <2> QED
    BY <2>2, <2>3, <1>4
<1>7. UnmovedPtrs'
  BY <1>1, <1>2, <1>4 DEF UnmovedPtrs, IInv
<1> QED
  BY <1>3, <1>5, <1>6, <1>7 DEF IInv, Layout

(* Freeing an allocation preserves the invariant: neither the block nor the *)
(* free block merged into it belongs to anybody else.                       *)
LEMMA FreePreserves ==
  ASSUME IInv, NEW b \in live, kfree(b)
  PROVE  IInv'
<1>1. Layout /\ b \notin moved /\ ptr[b] = b + HEADER /\ b \in Nat /\ HEADER \in Nat
  BY IInvLayout, GeometryAssumption DEF kfree, IInv, UnmovedPtrs, TypeOK
<1>2. PICK i \in Index : addr[i] = ptr[b] - HEADER /\ Coalesce(i)
  BY DEF kfree
<1>3. addr[i] = b
  BY <1>1, <1>2
<1>4. /\ Layout'
      /\ \A j \in Index : j # i /\ is_free[j] = 0 =>
           \E k \in Index' :
             addr'[k] = addr[j] /\ size'[k] = size[j] /\ is_free'[k] = is_free[j]
  <2>1. CASE i < count /\ is_free[i + 1] = 1
    <3>1. Merge(i)
      BY <2>1, <1>2 DEF Coalesce
    <3> QED
      BY <3>1, <2>1, <1>1, MergeKeepsLayout
  <2>2. CASE ~(i < count /\ is_free[i + 1] = 1)
    <3>1. Mark(i, 1)
      BY <2>2, <1>2 DEF Coalesce
    <3> QED
      BY <3>1, <1>1, MarkKeepsLayout
  <2> QED
    BY <2>1, <2>2
<1>5. /\ live' = live \ {b} /\ moved' = moved
      /\ \A c \in live' : ptr'[c] = ptr[c] /\ asked'[c] = asked[c]
  BY DEF kfree
<1>6. TypeOK'
  <2>1. live \subseteq Nat /\ moved \subseteq live /\ ptr \in [live -> Nat] /\ asked \in [live -> Nat]
    BY DEF IInv, TypeOK
  <2>2. live' \subseteq Nat /\ moved' \subseteq live'
    BY <2>1, <1>1, <1>5
  <2>3. ptr' \in [live' -> Nat] /\ asked' \in [live' -> Nat]
    BY <2>1 DEF kfree
  <2> QED
    BY <2>2, <2>3, <1>4 DEF TypeOK, Layout
<1>7. LiveInBlocks'
  <2>1. SUFFICES ASSUME NEW c \in live'
                 PROVE  \E k \in Index' : /\ addr'[k] = c /\ is_free'[k] = 0
                                         /\ addr'[k] + HEADER <= ptr'[c]
                                         /\ ptr'[c] + asked'[c] <= EndOf(k)'
    BY DEF LiveInBlocks
  <2>2. c \in live /\ c # b
    BY <1>5
  <2>3. PICK j \in Index : /\ addr[j] = c /\ is_free[j] = 0
                           /\ addr[j] + HEADER <= ptr[c] /\ ptr[c] + asked[c] <= EndOf(j)
    BY <2>2 DEF IInv, LiveInBlocks
  <2>4. PICK k \in Index' : /\ addr'[k] = addr[j] /\ size'[k] = size[j]
                            /\ is_free'[k] = is_free[j]
    BY <2>2, <2>3, <1>3, <1>4
  <2> QED
    BY <2>2, <2>3, <2>4, <1>5, SurvivorStays
<1>8. UnmovedPtrs'
  BY <1>5 DEF UnmovedPtrs, IInv
<1> QED
  BY <1>4, <1>6, <1>7, <1>8 DEF IInv, Layout

LEMMA NextPreserves == IInv /\ [Next]_vars => IInv'
<1> SUFFICES ASSUME IInv, [Next]_vars PROVE IInv'
  OBVIOUS
<1>0. /\ \A s \in Sizes : s \in Nat /\ s + ALIGN <= WORD
      /\ \A a \in Alignments : a \in Nat \ {0}
      /\ \A s \in Sizes, a \in Alignments : s + a + ALIGN <= WORD
      /\ HEADER \in Nat /\ \A i \in Index : addr[i] \in Nat
  BY SizesAssumption, GeometryAssumption DEF IInv, TypeOK
<1>1. ASSUME NEW s \in Sizes, kmalloc(s) PROVE IInv'
  <2>1. PICK i \in Index : /\ Fits(i, RoundUp(s)) /\ Take(i, RoundUp(s))
                           /\ Hold(addr[i], addr[i] + HEADER, s)
    BY <1>1 DEF kmalloc, FirstFit
  <2>2. RoundUp(s) \in Nat /\ RoundUp(s) >= s
    BY <1>0, RoundUpEnough
  <2>3. moved' = moved
    BY <1>1 DEF kmalloc
  <2>4. /\ addr[i] + HEADER \in Nat /\ s \in Nat
        /\ addr[i] + HEADER <= addr[i] + HEADER
        /\ addr[i] + HEADER + s <= addr[i] + HEADER + RoundUp(s)
    BY <1>0, <2>2
  <2> QED
    BY <2>1, <2>2, <2>3, <2>4, TakePreserves
<1>2. ASSUME NEW s \in Sizes, NEW a \in Alignments, kmalloc_aligned(s, a) PROVE IInv'
  <2> DEFINE n == RoundUp(s + a)
  <2>1. PICK i \in Index : /\ Fits(i, n) /\ Take(i, n)
                           /\ Hold(addr[i], AlignedPtr(addr[i] + HEADER, a), s)
                           /\ moved' = moved \cup {addr[i]}
    BY <1>2 DEF kmalloc_aligned, FirstFit
  <2> DEFINE q == AlignedPtr(addr[i] + HEADER, a)
  <2>2. n \in Nat /\ n >= s + a
    <3>1. s + a \in Nat /\ s + a + ALIGN <= WORD
      BY <1>0
    <3> QED
      BY <3>1, RoundUpEnough
  <2>3. q \in Nat /\ addr[i] + HEADER <= q /\ q < addr[i] + HEADER + a
    <3>1. addr[i] + HEADER \in Nat /\ a \in Nat \ {0}
      BY <1>0
    <3> QED
      BY <3>1, AlignedPtrClose
  <2> HIDE DEF n, q
  <2>4. q + s <= addr[i] + HEADER + n
    BY <1>0, <2>2, <2>3
  <2>5. Hold(addr[i], q, s)
    BY <2>1 DEF q
  <2> QED
    BY <1>0, <2>1, <2>2, <2>3, <2>4, <2>5, TakePreserves
<1>3. ASSUME NEW b \in live, kfree(b) PROVE IInv'
  BY <1>3, FreePreserves
<1>4. CASE UNCHANGED vars
  BY <1>4 DEF vars, IInv, TypeOK, Tiled, Ordered, LiveInBlocks, UnmovedPtrs, EndOf, Index
<1> QED
  BY <1>1, <1>2, <1>3, <1>4 DEF Next

-----------------------------------------------------------------------------
(* The strengthened invariant holds for every sequence of kmalloc,          *)
(* kmalloc_aligned and kfree.                                               *)
THEOREM Invariance == Spec => []IInv
<1>1. heap_init => IInv
  BY InitEstablishes
<1>2. IInv /\ [Next]_vars => IInv'
  BY NextPreserves
<1> QED
  BY <1>1, <1>2, PTL DEF Spec

(* Splitting and merging keep the list a tiling of the heap.                *)
THEOREM HeapTiled == Spec => []Tiled
<1>1. IInv => Tiled
  BY DEF IInv
<1> QED
  BY <1>1, Invariance, PTL

(* What a caller holds is inside a block that is not free.                  *)
THEOREM AllocationsSafe == Spec => []LiveInBlocks
<1>1. IInv => LiveInBlocks
  BY DEF IInv
<1> QED
  BY <1>1, Invariance, PTL

(* No byte is handed out twice.                                             *)
LEMMA IInvDisjoint == IInv => Disjoint
<1> SUFFICES ASSUME IInv, NEW a \in live, NEW b \in live, a # b
             PROVE  \/ ptr[a] + asked[a] <= ptr[b]
                    \/ ptr[b] + asked[b] <= ptr[a]
  BY DEF Disjoint
<1>1. PICK i \in Index : addr[i] = a /\ addr[i] + HEADER <= ptr[a] /\ ptr[a] + asked[a] <= EndOf(i)
  BY DEF IInv, LiveInBlocks
<1>2. PICK j \in Index : addr[j] = b /\ addr[j] + HEADER <= ptr[b] /\ ptr[b] + asked[b] <= EndOf(j)
  BY DEF IInv, LiveInBlocks
<1>3. /\ ptr[a] \in Nat /\ ptr[b] \in Nat /\ asked[a] \in Nat /\ asked[b] \in Nat
      /\ a \in Nat /\ b \in Nat /\ size[i] \in Nat /\ size[j] \in Nat /\ HEADER \in Nat
  BY GeometryAssumption DEF IInv, TypeOK
<1>4. EndOf(i) \in Nat /\ EndOf(j) \in Nat
  BY <1>1, <1>2, <1>3 DEF EndOf
<1>5. i < j => EndOf(i) <= addr[j]
  BY DEF IInv, Ordered
<1>6. j < i => EndOf(j) <= addr[i]
  BY DEF IInv, Ordered
<1>7. i < j \/ j < i
  BY <1>1, <1>2 DEF Index, IInv, TypeOK
<1>8. CASE i < j
  BY <1>8, <1>1, <1>2, <1>3, <1>4, <1>5
<1>9. CASE j < i
  BY <1>9, <1>1, <1>2, <1>3, <1>4, <1>6
<1> QED
  BY <1>7, <1>8, <1>9

(* Two callers never hold the same byte of the heap.                        *)
THEOREM AllocationsDisjoint == Spec => []Disjoint
BY IInvDisjoint, Invariance, PTL

-----------------------------------------------------------------------------
(* The pieces of memory handed out, as module Allocator sees them.          *)
Piece(b) == [ptr |-> ptr[b], size |-> asked[b]]

Pieces == {Piece(b) : b \in live}

PiecesInHeap ==
  \A b \in live : ptr[b] \in Nat /\ asked[b] \in Nat /\ ptr[b] + asked[b] <= HEAP_SIZE

(* A piece lies inside its block and so inside the heap.                    *)
LEMMA IInvPiecesInHeap == IInv => PiecesInHeap
<1> SUFFICES ASSUME IInv, NEW b \in live
             PROVE  ptr[b] \in Nat /\ asked[b] \in Nat /\ ptr[b] + asked[b] <= HEAP_SIZE
  BY DEF PiecesInHeap
<1>1. PICK i \in Index : ptr[b] + asked[b] <= EndOf(i)
  BY DEF IInv, LiveInBlocks
<1>2. /\ count \in Nat /\ i \in 1 .. count /\ count \in Index
      /\ \A j \in Index : addr[j] \in Nat /\ size[j] \in Nat
      /\ HEADER \in Nat /\ HEAP_SIZE \in Nat
  BY GeometryAssumption DEF IInv, TypeOK, Index
<1>3. ptr[b] \in Nat /\ asked[b] \in Nat
  BY DEF IInv, TypeOK
<1>4. EndOf(count) = HEAP_SIZE
  BY DEF IInv, Tiled
<1>5. i < count => EndOf(i) <= addr[count]
  BY <1>2 DEF IInv, Ordered
<1>6. EndOf(i) \in Nat /\ addr[count] <= EndOf(count)
  BY <1>2 DEF EndOf
<1>7. EndOf(i) <= HEAP_SIZE
  BY <1>2, <1>4, <1>5, <1>6
<1> QED
  BY <1>1, <1>2, <1>3, <1>6, <1>7

(* No two holders have the same pointer: there is a block header between    *)
(* them, even if a piece is empty.                                          *)
LEMMA PointersDiffer ==
  ASSUME IInv, NEW a \in live, NEW b \in live, a # b
  PROVE  ptr[a] # ptr[b]
<1>1. PICK i \in Index : addr[i] = a /\ addr[i] + HEADER <= ptr[a] /\ ptr[a] + asked[a] <= EndOf(i)
  BY DEF IInv, LiveInBlocks
<1>2. PICK j \in Index : addr[j] = b /\ addr[j] + HEADER <= ptr[b] /\ ptr[b] + asked[b] <= EndOf(j)
  BY DEF IInv, LiveInBlocks
<1>3. /\ ptr[a] \in Nat /\ ptr[b] \in Nat /\ asked[a] \in Nat /\ asked[b] \in Nat
      /\ a \in Nat /\ b \in Nat /\ size[i] \in Nat /\ size[j] \in Nat /\ HEADER \in Nat \ {0}
  BY GeometryAssumption DEF IInv, TypeOK
<1>4. EndOf(i) \in Nat /\ EndOf(j) \in Nat
  BY <1>1, <1>2, <1>3 DEF EndOf
<1>5. /\ i < j => EndOf(i) <= addr[j]
      /\ j < i => EndOf(j) <= addr[i]
  BY DEF IInv, Ordered
<1>6. i < j \/ j < i
  BY <1>1, <1>2 DEF Index, IInv, TypeOK
<1> QED
  BY <1>1, <1>2, <1>3, <1>4, <1>5, <1>6

(* A free block is nobody's, so the piece cut from it is a new one, inside  *)
(* the heap and apart from all the others.                                  *)
LEMMA HoldAllocates ==
  ASSUME IInv, IInv', NEW i \in Index, is_free[i] = 1,
         NEW p, NEW n \in Sizes, Hold(addr[i], p, n)
  PROVE  AllocatorOf!Next
<1> DEFINE b == addr[i]
           new == [ptr |-> p, size |-> n]
<1>1. b \notin live
  <2>1. SUFFICES ASSUME b \in live PROVE FALSE
    OBVIOUS
  <2>2. PICK j \in Index : addr[j] = addr[i] /\ is_free[j] = 0
    BY <2>1 DEF IInv, LiveInBlocks
  <2>3. j = i
    BY <2>2, IInvLayout, AddressesDiffer
  <2> QED
    BY <2>2, <2>3
<1>2. /\ live' = live \cup {b} /\ ptr'[b] = p /\ asked'[b] = n
      /\ \A x \in live : ptr'[x] = ptr[x] /\ asked'[x] = asked[x]
  BY <1>1 DEF Hold
<1> HIDE DEF b
<1>3. \A x \in live' : ptr'[x] \in Nat /\ asked'[x] \in Nat /\ ptr'[x] + asked'[x] <= HEAP_SIZE
  <2>1. PiecesInHeap'
    BY IInvPiecesInHeap, PTL
  <2> QED
    BY <2>1 DEF PiecesInHeap
<1>4. Disjoint'
  BY IInvDisjoint, PTL
<1>5. p \in 0 .. HEAP_SIZE /\ p + n <= HEAP_SIZE /\ n \in Nat
  BY <1>2, <1>3, GeometryAssumption
<1>6. \A x \in live : p + n <= ptr[x] \/ ptr[x] + asked[x] <= p
  BY <1>1, <1>2, <1>4 DEF Disjoint
<1>7. \A x \in live : ptr[x] \in Nat /\ asked[x] \in Nat
  BY <1>2, <1>3
<1>8. \A q \in Pieces : ~AllocatorOf!Overlap(new, q)
  BY <1>5, <1>6, <1>7 DEF Pieces, Piece, AllocatorOf!Overlap
<1>9. Pieces' = Pieces \cup {new}
  BY <1>2 DEF Pieces, Piece
<1>10. AllocatorOf!Alloc(new)
  BY <1>5, <1>8, <1>9 DEF AllocatorOf!Alloc, Pieces, Piece
<1> QED
  BY <1>5, <1>10 DEF AllocatorOf!Next

(* kfree takes away the one piece, and no other.                            *)
LEMMA FreeReleases ==
  ASSUME IInv, NEW b \in live, kfree(b)
  PROVE  AllocatorOf!Next
<1>1. /\ live' = live \ {b}
      /\ \A x \in live' : ptr'[x] = ptr[x] /\ asked'[x] = asked[x]
  BY DEF kfree
<1>2. \A x \in live : x # b => Piece(x) # Piece(b)
  BY PointersDiffer DEF Piece
<1>3. Pieces' = {Piece(x) : x \in live \ {b}}
  BY <1>1 DEF Pieces, Piece
<1>4. Pieces' = Pieces \ {Piece(b)} /\ Piece(b) \in Pieces
  BY <1>2, <1>3 DEF Pieces
<1>5. \E a \in Pieces : Pieces' = Pieces \ {a}
  BY <1>4
<1> QED
  BY <1>5 DEF AllocatorOf!Next, AllocatorOf!Free, Pieces, Piece

(* Every step of the heap is a step of the allocator, or changes no piece.  *)
LEMMA AllocatorStep ==
  ASSUME IInv, IInv', [Next]_vars
  PROVE  AllocatorOf!Next \/ Pieces' = Pieces
<1>1. ASSUME NEW s \in Sizes, kmalloc(s) PROVE AllocatorOf!Next
  <2>1. PICK i \in Index : is_free[i] = 1 /\ Hold(addr[i], addr[i] + HEADER, s)
    BY <1>1 DEF kmalloc, FirstFit, Fits
  <2> QED
    BY <2>1, HoldAllocates
<1>2. ASSUME NEW s \in Sizes, NEW a \in Alignments, kmalloc_aligned(s, a)
      PROVE  AllocatorOf!Next
  <2>1. PICK i \in Index : is_free[i] = 1 /\ Hold(addr[i], AlignedPtr(addr[i] + HEADER, a), s)
    BY <1>2 DEF kmalloc_aligned, FirstFit, Fits
  <2> QED
    BY <2>1, HoldAllocates
<1>3. ASSUME NEW b \in live, kfree(b) PROVE AllocatorOf!Next
  BY <1>3, FreeReleases
<1>4. CASE UNCHANGED vars
  BY <1>4 DEF vars, Pieces, Piece
<1> QED
  BY <1>1, <1>2, <1>3, <1>4 DEF Next

(* The block list implements the allocator of module Allocator: a piece of  *)
(* memory belongs to one holder until kfree, which takes nothing else away. *)
THEOREM HeapImplementsAllocator == Spec => ImplementsAllocator
<1>1. heap_init => AllocatorOf!Init
  BY DEF heap_init, AllocatorOf!Init
<1>2. IInv /\ IInv' /\ [Next]_vars
        => AllocatorOf!Next \/ UNCHANGED {[ptr |-> ptr[b], size |-> asked[b]] : b \in live}
  BY AllocatorStep DEF Pieces, Piece
<1> QED
  BY <1>1, <1>2, Invariance, PTL DEF Spec, ImplementsAllocator, AllocatorOf!Spec
=============================================================================
