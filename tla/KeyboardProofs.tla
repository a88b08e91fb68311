--------------------------- MODULE KeyboardProofs ---------------------------
(***************************************************************************)
(* Proofs for module Keyboard, for every size of the ring buffer: shift    *)
(* does not stick, and the driver with its unsynchronised parties          *)
(* implements module CharQueue.                                            *)
(***************************************************************************)
EXTENDS Keyboard, SequenceTheorems, TLAPS

(* Positions in a ring of N slots: % one time round, either way.            *)
LEMMA ModInside ==
  ASSUME NEW N \in Nat \ {0}, NEW x \in 0 .. N - 1
  PROVE  x % N = x
  BY SMT

LEMMA ModAbove ==
  ASSUME NEW N \in Nat \ {0}, NEW x \in N .. 2 * N - 1
  PROVE  x % N = x - N
  BY SMT

LEMMA ModBelow ==
  ASSUME NEW N \in Nat \ {0}, NEW x \in -N .. -1
  PROVE  x % N = x + N
  BY SMT

-----------------------------------------------------------------------------
(* The characters between two positions of a buffer.  Unread is the case of *)
(* the driver's own buffer and positions.                                   *)
Ring(b, r, w) == [i \in 1 .. (w - r) % KB_BUFFER_SIZE |-> b[(r + i - 1) % KB_BUFFER_SIZE]]

Stored == Chars \cup {Blank}
Buffers == [Slots -> Stored]

(* The same without %: how many there are and where the i-th one stands.    *)
Count(r, w) == IF w >= r THEN w - r ELSE w - r + KB_BUFFER_SIZE
Place(r, i) == IF r + i - 1 < KB_BUFFER_SIZE THEN r + i - 1 ELSE r + i - 1 - KB_BUFFER_SIZE
Step(r) == IF r + 1 < KB_BUFFER_SIZE THEN r + 1 ELSE 0

LEMMA CountIsMod ==
  ASSUME NEW r \in Slots, NEW w \in Slots
  PROVE  (w - r) % KB_BUFFER_SIZE = Count(r, w) /\ Count(r, w) \in 0 .. KB_BUFFER_SIZE - 1
<1>1. r \in Int /\ w \in Int /\ KB_BUFFER_SIZE \in Nat \ {0} /\ 0 <= r /\ r < KB_BUFFER_SIZE
      /\ 0 <= w /\ w < KB_BUFFER_SIZE
  BY SizeAssumption DEF Slots
<1>2. CASE w >= r
  BY <1>1, <1>2, ModInside DEF Count
<1>3. CASE ~(w >= r)
  BY <1>1, <1>3, ModBelow DEF Count
<1> QED BY <1>2, <1>3

LEMMA PlaceIsMod ==
  ASSUME NEW r \in Slots, NEW i \in 1 .. KB_BUFFER_SIZE
  PROVE  (r + i - 1) % KB_BUFFER_SIZE = Place(r, i) /\ Place(r, i) \in Slots
<1>1. r \in Int /\ i \in Int /\ KB_BUFFER_SIZE \in Nat \ {0} /\ 0 <= r /\ r < KB_BUFFER_SIZE
      /\ 1 <= i /\ i <= KB_BUFFER_SIZE
  BY SizeAssumption DEF Slots
<1>2. CASE r + i - 1 < KB_BUFFER_SIZE
  BY <1>1, <1>2, ModInside DEF Place, Slots
<1>3. CASE ~(r + i - 1 < KB_BUFFER_SIZE)
  BY <1>1, <1>3, ModAbove DEF Place, Slots
<1> QED BY <1>2, <1>3

LEMMA StepIsMod ==
  ASSUME NEW r \in Slots
  PROVE  (r + 1) % KB_BUFFER_SIZE = Step(r) /\ Step(r) \in Slots
<1>1. r \in Int /\ KB_BUFFER_SIZE \in Nat \ {0, 1} /\ 0 <= r /\ r < KB_BUFFER_SIZE
  BY SizeAssumption DEF Slots
<1>2. CASE r + 1 < KB_BUFFER_SIZE
  BY <1>1, <1>2, ModInside DEF Step, Slots
<1>3. CASE ~(r + 1 < KB_BUFFER_SIZE)
  BY <1>1, <1>3, ModAbove DEF Step, Slots
<1> QED BY <1>2, <1>3

(* Ring is a sequence of that many characters.                              *)
LEMMA RingIsSequence ==
  ASSUME NEW b \in Buffers, NEW r \in Slots, NEW w \in Slots
  PROVE  /\ Ring(b, r, w) = [i \in 1 .. Count(r, w) |-> b[Place(r, i)]]
         /\ Ring(b, r, w) \in Seq(Stored)
         /\ Len(Ring(b, r, w)) = Count(r, w)
<1>1. (w - r) % KB_BUFFER_SIZE = Count(r, w) /\ Count(r, w) \in 0 .. KB_BUFFER_SIZE - 1
  BY CountIsMod
<1>2. KB_BUFFER_SIZE \in Nat
  BY SizeAssumption
<1>3. \A i \in 1 .. Count(r, w) : i \in 1 .. KB_BUFFER_SIZE
  BY <1>1, <1>2
<1>4. \A i \in 1 .. Count(r, w) :
        (r + i - 1) % KB_BUFFER_SIZE = Place(r, i) /\ Place(r, i) \in Slots
  BY <1>3, PlaceIsMod
<1>5. Ring(b, r, w) = [i \in 1 .. Count(r, w) |-> b[Place(r, i)]]
  BY <1>1, <1>4 DEF Ring
<1>6. [i \in 1 .. Count(r, w) |-> b[Place(r, i)]] \in [1 .. Count(r, w) -> Stored]
  BY <1>4 DEF Buffers
<1>7. Count(r, w) \in Nat
  BY <1>1, <1>2
<1> QED BY <1>5, <1>6, <1>7

(* Arithmetic of the two positions: what one step of either does to the     *)
(* count and the places.                                                    *)
LEMMA WriteStep ==
  ASSUME NEW r \in Slots, NEW w \in Slots, Step(w) # r
  PROVE  /\ Count(r, Step(w)) = Count(r, w) + 1
         /\ Count(r, w) < KB_BUFFER_SIZE - 1
         /\ Place(r, Count(r, w) + 1) = w
         /\ \A i \in 1 .. Count(r, w) : Place(r, i) # w
  BY SizeAssumption DEF Slots, Count, Place, Step

LEMMA FullRing ==
  ASSUME NEW r \in Slots, NEW w \in Slots, Step(w) = r
  PROVE  Count(r, w) = KB_BUFFER_SIZE - 1
  BY SizeAssumption DEF Slots, Count, Step

LEMMA ReadStep ==
  ASSUME NEW r \in Slots, NEW w \in Slots, r # w
  PROVE  /\ Count(Step(r), w) = Count(r, w) - 1
         /\ Count(r, w) >= 1
         /\ Place(r, 1) = r
         /\ \A i \in 1 .. Count(r, w) - 1 : Place(Step(r), i) = Place(r, i + 1)
  BY SizeAssumption DEF Slots, Count, Place, Step

(* Storing a character at the write position appends it.                    *)
LEMMA RingAppend ==
  ASSUME NEW b \in Buffers, NEW r \in Slots, NEW w \in Slots, NEW ch \in Stored, Step(w) # r
  PROVE  Ring([b EXCEPT ![w] = ch], r, Step(w)) = Append(Ring(b, r, w), ch)
<1> DEFINE d == [b EXCEPT ![w] = ch]
           new == Ring(d, r, Step(w))
           old == Ring(b, r, w)
           n == Count(r, w)
<1>1. d \in Buffers /\ d[w] = ch /\ \A k \in Slots : k # w => d[k] = b[k]
  BY DEF Buffers
<1>2. Step(w) \in Slots
  BY StepIsMod
<1>3. /\ old = [i \in 1 .. n |-> b[Place(r, i)]]
      /\ old \in Seq(Stored) /\ Len(old) = n
  BY RingIsSequence
<1>4. /\ new = [i \in 1 .. Count(r, Step(w)) |-> d[Place(r, i)]]
      /\ new \in Seq(Stored) /\ Len(new) = Count(r, Step(w))
  <2> HIDE DEF d
  <2> QED BY <1>1, <1>2, RingIsSequence
<1>5. /\ Count(r, Step(w)) = n + 1 /\ Place(r, n + 1) = w
      /\ \A i \in 1 .. n : Place(r, i) # w
  BY WriteStep
<1>6. n \in Nat /\ n < KB_BUFFER_SIZE /\ KB_BUFFER_SIZE \in Nat
  BY CountIsMod, SizeAssumption
<1>7. \A i \in 1 .. n : Place(r, i) \in Slots
  BY <1>6, PlaceIsMod
<1> HIDE DEF d, new, old, n
<1>8. Append(old, ch) \in Seq(Stored) /\ Len(Append(old, ch)) = n + 1
      /\ \A i \in 1 .. n + 1 : Append(old, ch)[i] = IF i <= n THEN old[i] ELSE ch
  BY <1>3, <1>6, AppendProperties
<1>9. ASSUME NEW i \in 1 .. n + 1 PROVE new[i] = Append(old, ch)[i]
  <2>1. new[i] = d[Place(r, i)]
    BY <1>4, <1>5
  <2>2. CASE i \in 1 .. n
    BY <1>1, <1>3, <1>5, <1>6, <1>7, <1>8, <2>1, <2>2
  <2>3. CASE i = n + 1
    BY <1>1, <1>5, <1>6, <1>8, <2>1, <2>3
  <2>4. i \in 1 .. n \/ i = n + 1
    BY <1>6
  <2> QED BY <2>2, <2>3, <2>4
<1>10. new = Append(old, ch)
  BY <1>4, <1>5, <1>8, <1>9, SeqEqual
<1> QED BY <1>10 DEF new, old, d

(* Moving the read position on takes the first character away.              *)
LEMMA RingTail ==
  ASSUME NEW b \in Buffers, NEW r \in Slots, NEW w \in Slots, r # w
  PROVE  /\ Ring(b, r, w) # <<>> /\ Head(Ring(b, r, w)) = b[r]
         /\ Ring(b, Step(r), w) = Tail(Ring(b, r, w))
<1> DEFINE new == Ring(b, Step(r), w)
           old == Ring(b, r, w)
           n == Count(r, w)
<1>1. Step(r) \in Slots
  BY StepIsMod
<1>2. old = [i \in 1 .. n |-> b[Place(r, i)]] /\ old \in Seq(Stored) /\ Len(old) = n
  BY RingIsSequence
<1>3. /\ new = [i \in 1 .. Count(Step(r), w) |-> b[Place(Step(r), i)]]
      /\ new \in Seq(Stored) /\ Len(new) = Count(Step(r), w)
  BY <1>1, RingIsSequence
<1>4. /\ Count(Step(r), w) = n - 1 /\ n >= 1 /\ Place(r, 1) = r
      /\ \A i \in 1 .. n - 1 : Place(Step(r), i) = Place(r, i + 1)
  BY ReadStep
<1>5. n \in Nat
  BY CountIsMod, SizeAssumption
<1> HIDE DEF new, old, n
<1>6. old # <<>> /\ Head(old) = old[1] /\ old[1] = b[r]
  BY <1>2, <1>4, <1>5
<1>7. Tail(old) \in Seq(Stored) /\ Len(Tail(old)) = n - 1
      /\ \A i \in 1 .. n - 1 : Tail(old)[i] = old[i + 1]
  <2>1. /\ Tail(old) \in Seq(Stored) /\ Len(Tail(old)) = Len(old) - 1
        /\ \A i \in 1 .. Len(Tail(old)) : Tail(old)[i] = old[i + 1]
    BY <1>2, <1>6, HeadTailProperties, Zenon
  <2> QED BY <1>2, <1>5, <2>1
<1>8. \A i \in 1 .. n - 1 : new[i] = Tail(old)[i]
  BY <1>2, <1>3, <1>4, <1>5, <1>7
<1>9. new = Tail(old)
  BY <1>3, <1>4, <1>7, <1>8, SeqEqual
<1> QED BY <1>6, <1>9 DEF new, old

-----------------------------------------------------------------------------
(* What holds of the driver between any two steps: a reader that has found  *)
(* a character still has one, and the one it has taken is still the oldest, *)
(* because the handler writes elsewhere.                                    *)
DriverInv ==
  /\ kb_buffer \in Buffers
  /\ kb_read_pos \in Slots /\ kb_write_pos \in Slots
  /\ pc \in {"read", "advance"} => kb_read_pos # kb_write_pos
  /\ pc = "advance" => c = kb_buffer[kb_read_pos]

(* A shift key whose press waits in the controller is down.                 *)
ShiftInv == ShiftIsHeld /\ (port \in ShiftKeys => port \in held)

LEMMA DriverInit == Init => DriverInv
<1> SUFFICES ASSUME Init PROVE DriverInv
  OBVIOUS
<1>1. 0 \in Slots
  BY SizeAssumption DEF Slots
<1>2. kb_buffer \in Buffers
  BY DEF Init, Buffers, Stored
<1> QED BY <1>1, <1>2 DEF Init, DriverInv

(* A step that leaves the buffer alone and does not bring a reader to the   *)
(* character.                                                               *)
LEMMA DriverKept ==
  ASSUME DriverInv, UNCHANGED <<buffer_vars, c>>,
         pc' \in {"read", "advance"} => pc' = pc
  PROVE  DriverInv'
  BY DEF DriverInv, buffer_vars

LEMMA CharOfIsChar ==
  ASSUME NEW s PROVE CharOf(s) \in Chars /\ CharOf(s) \in Stored
  BY DEF CharOf, Chars, Stored

LEMMA ResumedIsNoReader ==
  Resumed \in {"read", "advance"} => Resumed = pc
  BY DEF Resumed

(* The handler storing a character.                                         *)
LEMMA StorePreserves ==
  ASSUME DriverInv, NEW ch \in Stored, Store(ch), UNCHANGED c,
         pc' \in {"read", "advance"} => pc' = pc
  PROVE  DriverInv'
<1>1. /\ kb_buffer \in Buffers /\ kb_read_pos \in Slots /\ kb_write_pos \in Slots
      /\ kb_read_pos' = kb_read_pos
  BY DEF DriverInv, Store
<1>2. (kb_write_pos + 1) % KB_BUFFER_SIZE \in Slots
  BY <1>1, StepIsMod
<1>3. CASE (kb_write_pos + 1) % KB_BUFFER_SIZE # kb_read_pos
  <2>1. /\ kb_buffer' = [kb_buffer EXCEPT ![kb_write_pos] = ch]
        /\ kb_write_pos' = (kb_write_pos + 1) % KB_BUFFER_SIZE
    BY <1>3 DEF Store
  <2>2. kb_buffer' \in Buffers
    BY <1>1, <2>1 DEF Buffers
  <2>3. kb_read_pos # kb_write_pos => kb_buffer'[kb_read_pos] = kb_buffer[kb_read_pos]
    BY <1>1, <2>1 DEF Buffers
  <2> QED BY <1>1, <1>2, <1>3, <2>1, <2>2, <2>3 DEF DriverInv
<1>4. CASE (kb_write_pos + 1) % KB_BUFFER_SIZE = kb_read_pos
  <2>1. UNCHANGED buffer_vars
    BY <1>1, <1>4 DEF Store, buffer_vars
  <2> QED BY <2>1, DriverKept DEF buffer_vars
<1> QED BY <1>3, <1>4

LEMMA DriverStep ==
  ASSUME DriverInv, [Next]_vars
  PROVE  DriverInv'
<1>1. CASE \E scancode \in Scancodes : press(scancode)
  BY <1>1, DriverKept DEF press, buffer_vars
<1>2. CASE irq_handler_keyboard
  <2>1. pc' = Resumed /\ UNCHANGED c
    BY <1>2 DEF irq_handler_keyboard
  <2>2. CASE irq_registered /\ port \in {"A", "ENTER"}
    <3>1. Store(CharOf(port))
      BY <1>2, <2>2 DEF irq_handler_keyboard, keyboard_handler
    <3> QED BY <2>1, <3>1, CharOfIsChar, ResumedIsNoReader, StorePreserves
  <2>3. CASE ~(irq_registered /\ port \in {"A", "ENTER"})
    <3>1. UNCHANGED buffer_vars
      BY <1>2, <2>3 DEF irq_handler_keyboard, keyboard_handler, Modify, buffer_vars
    <3> QED BY <2>1, <3>1, ResumedIsNoReader, DriverKept DEF buffer_vars
  <2> QED BY <2>2, <2>3
<1>3. CASE irq_handler_timer
  BY <1>3, DriverKept, ResumedIsNoReader DEF irq_handler_timer, buffer_vars
<1>4. CASE keyboard_init
  BY <1>4, DriverKept DEF keyboard_init, buffer_vars
<1>5. CASE \E ms \in Durations : sys_sleep(ms)
  BY <1>5, DriverKept DEF sys_sleep, buffer_vars
<1>6. CASE reader
  <2>1. CASE \E from_syscall \in BOOLEAN : keyboard_get_char(from_syscall)
    BY <2>1, DriverKept DEF keyboard_get_char, buffer_vars
  <2>2. CASE keyboard_has_char
    BY <2>2 DEF keyboard_has_char, DriverInv, buffer_vars
  <2>3. CASE hlt
    BY <2>3, DriverKept DEF hlt, buffer_vars
  <2>4. CASE read_char
    BY <2>4 DEF read_char, DriverInv, buffer_vars
  <2>5. CASE advance
    <3>1. (kb_read_pos + 1) % KB_BUFFER_SIZE \in Slots
      BY StepIsMod DEF DriverInv
    <3> QED BY <2>5, <3>1 DEF advance, DriverInv
  <2>6. CASE sleep_loop \/ sleep_hlt \/ sleep_returns
    BY <2>6, DriverKept DEF sleep_loop, sleep_hlt, sleep_returns, buffer_vars
  <2> QED BY <1>6, <2>1, <2>2, <2>3, <2>4, <2>5, <2>6 DEF reader
<1>7. CASE UNCHANGED vars
  BY <1>7, DriverKept DEF vars, buffer_vars
<1> QED BY <1>1, <1>2, <1>3, <1>4, <1>5, <1>6, <1>7 DEF Next

LEMMA ShiftInit == Init => ShiftInv
  BY DEF Init, ShiftInv, ShiftIsHeld, ShiftKeys, NoScancode

LEMMA ShiftKept ==
  ASSUME ShiftInv, UNCHANGED <<shift_pressed, port, held>>
  PROVE  ShiftInv'
  BY DEF ShiftInv, ShiftIsHeld

LEMMA ShiftStep ==
  ASSUME ShiftInv, [Next]_vars
  PROVE  ShiftInv'
<1>1. CASE \E scancode \in Scancodes : press(scancode)
  <2>1. PICK scancode \in Scancodes : press(scancode)
    BY <1>1
  <2>2. /\ port = NoScancode /\ port' = scancode /\ shift_pressed' = shift_pressed
        /\ held' = (held \ {k \in ShiftKeys : scancode = Release[k]})
                     \cup ({scancode} \cap ShiftKeys)
    BY <2>1 DEF press, modifier_vars
  <2>3. CASE scancode \in {"LSHIFT_UP", "RSHIFT_UP"}
    BY <2>2, <2>3 DEF ShiftInv, ShiftIsHeld, ShiftKeys
  <2>4. CASE scancode \notin {"LSHIFT_UP", "RSHIFT_UP"}
    <3>1. {k \in ShiftKeys : scancode = Release[k]} = {}
      BY <2>4 DEF ShiftKeys, Release
    <3>2. held \subseteq held' /\ (scancode \in ShiftKeys => scancode \in held')
      BY <2>2, <3>1
    <3> QED BY <2>2, <3>2 DEF ShiftInv, ShiftIsHeld, NoScancode
  <2> QED BY <2>3, <2>4
<1>2. CASE irq_handler_keyboard
  <2>1. held' = held
    BY <1>2 DEF irq_handler_keyboard
  <2>2. CASE ~irq_registered
    BY <1>2, <2>1, <2>2, ShiftKept DEF irq_handler_keyboard, modifier_vars
  <2>3. CASE irq_registered /\ port \in {"A", "ENTER"}
    <3>1. shift_pressed' = shift_pressed /\ port' = NoScancode
      BY <1>2, <2>3 DEF irq_handler_keyboard, keyboard_handler, Store, modifier_vars
    <3> QED BY <2>1, <2>3, <3>1 DEF ShiftInv, ShiftIsHeld, ShiftKeys, NoScancode
  <2>4. CASE irq_registered /\ port \notin {"A", "ENTER"}
    <3>1. /\ port' = NoScancode
          /\ shift_pressed' = ((shift_pressed \/ port \in ShiftKeys)
                                 /\ port \notin {"LSHIFT_UP", "RSHIFT_UP"})
      BY <1>2, <2>4 DEF irq_handler_keyboard, keyboard_handler, Modify
    <3> QED BY <2>1, <3>1 DEF ShiftInv, ShiftIsHeld, ShiftKeys, NoScancode
  <2> QED BY <2>2, <2>3, <2>4
<1>3. CASE irq_handler_timer \/ keyboard_init \/ \E ms \in Durations : sys_sleep(ms)
  BY <1>3, ShiftKept DEF irq_handler_timer, keyboard_init, sys_sleep, modifier_vars, key_vars
<1>4. CASE reader
  BY <1>4, ShiftKept
  DEF reader, keyboard_get_char, keyboard_has_char, hlt, read_char, advance, sleep_loop,
      sleep_hlt, sleep_returns, modifier_vars, key_vars
<1>5. CASE UNCHANGED vars
  BY <1>5, ShiftKept DEF vars
<1> QED BY <1>1, <1>2, <1>3, <1>4, <1>5 DEF Next

(* Shift does not stick, whatever the order of presses, releases and        *)
(* interrupts, keys pressed before the handler was registered included.     *)
THEOREM ShiftCorrect == Spec => []ShiftIsHeld
<1>1. ShiftInv => ShiftIsHeld
  BY DEF ShiftInv
<1> QED BY <1>1, ShiftInit, ShiftStep, PTL DEF Spec

-----------------------------------------------------------------------------
LEMMA UnreadIsRing ==
  Unread = Ring(kb_buffer, kb_read_pos, kb_write_pos)
  BY DEF Unread, Ring

LEMMA UnreadIsRingNext ==
  Unread' = Ring(kb_buffer', kb_read_pos', kb_write_pos')
  BY DEF Unread, Ring

LEMMA QueueInit == Init => Queue!Init
<1> SUFFICES ASSUME Init PROVE Queue!Init
  OBVIOUS
<1>1. 0 \in Slots /\ kb_buffer \in Buffers /\ kb_read_pos = 0 /\ kb_write_pos = 0
  BY DriverInit DEF Init, DriverInv
<1>2. Unread \in Seq(Stored) /\ Len(Unread) = Count(0, 0)
  BY <1>1, UnreadIsRing, RingIsSequence
<1>3. Count(0, 0) = 0
  BY DEF Count
<1>4. Unread = <<>>
  BY <1>2, <1>3
<1> QED BY <1>4 DEF Init, Queue!Init

(* A step that changes neither the buffer nor the history is a stutter of   *)
(* the queue.                                                               *)
LEMMA QueueStutters ==
  ASSUME UNCHANGED <<buffer_vars, typed, delivered>>
  PROVE  UNCHANGED Queue!vars
  BY UnreadIsRing, UnreadIsRingNext DEF buffer_vars, Queue!vars

(* The handler storing a character, or dropping it, is Type.                *)
LEMMA StoreTypes ==
  ASSUME DriverInv, NEW ch \in Chars, Store(ch), UNCHANGED delivered
  PROVE  Queue!Type(ch)
<1>1. /\ kb_buffer \in Buffers /\ kb_read_pos \in Slots /\ kb_write_pos \in Slots
      /\ kb_read_pos' = kb_read_pos /\ typed' = Append(typed, ch)
      /\ ch \in Stored
  BY DEF DriverInv, Store, Stored
<1>2. (kb_write_pos + 1) % KB_BUFFER_SIZE = Step(kb_write_pos)
  BY <1>1, StepIsMod
<1>3. Len(Unread) = Count(kb_read_pos, kb_write_pos)
  BY <1>1, UnreadIsRing, RingIsSequence
<1>4. CASE Step(kb_write_pos) # kb_read_pos
  <2>1. /\ kb_buffer' = [kb_buffer EXCEPT ![kb_write_pos] = ch]
        /\ kb_write_pos' = Step(kb_write_pos)
    BY <1>2, <1>4 DEF Store
  <2>2. Unread' = Append(Unread, ch)
    BY <1>1, <1>4, <2>1, UnreadIsRing, UnreadIsRingNext, RingAppend
  <2>3. Len(Unread) < KB_BUFFER_SIZE - 1
    BY <1>1, <1>3, <1>4, WriteStep
  <2> QED BY <1>1, <2>2, <2>3 DEF Queue!Type
<1>5. CASE Step(kb_write_pos) = kb_read_pos
  <2>1. kb_buffer' = kb_buffer /\ kb_write_pos' = kb_write_pos
    BY <1>2, <1>5 DEF Store
  <2>2. Unread' = Unread
    BY <1>1, <2>1, UnreadIsRing, UnreadIsRingNext
  <2>3. ~(Len(Unread) < KB_BUFFER_SIZE - 1)
    BY <1>1, <1>3, <1>5, FullRing, SizeAssumption
  <2> QED BY <1>1, <2>2, <2>3 DEF Queue!Type
<1> QED BY <1>4, <1>5

(* The reader moving on is Deliver.                                         *)
LEMMA AdvanceDelivers ==
  ASSUME DriverInv, advance
  PROVE  Queue!Deliver
<1>1. /\ kb_buffer \in Buffers /\ kb_read_pos \in Slots /\ kb_write_pos \in Slots
      /\ kb_read_pos # kb_write_pos /\ c = kb_buffer[kb_read_pos]
  BY DEF DriverInv, advance
<1>2. /\ kb_buffer' = kb_buffer /\ kb_write_pos' = kb_write_pos
      /\ kb_read_pos' = Step(kb_read_pos)
      /\ typed' = typed /\ delivered' = Append(delivered, c)
  BY <1>1, StepIsMod DEF advance
<1>3. /\ Unread # <<>> /\ Head(Unread) = c /\ Unread' = Tail(Unread)
  BY <1>1, <1>2, UnreadIsRing, UnreadIsRingNext, RingTail
<1> QED BY <1>2, <1>3 DEF Queue!Deliver

LEMMA QueueStep ==
  ASSUME DriverInv, [Next]_vars
  PROVE  [Queue!Next]_(Queue!vars)
<1>1. CASE irq_handler_keyboard /\ irq_registered /\ port \in {"A", "ENTER"}
  <2>1. Store(CharOf(port)) /\ UNCHANGED delivered
    BY <1>1 DEF irq_handler_keyboard, keyboard_handler
  <2>2. Queue!Type(CharOf(port))
    BY <2>1, CharOfIsChar, StoreTypes
  <2> QED BY <2>2, CharOfIsChar DEF Queue!Next
<1>2. CASE advance
  BY <1>2, AdvanceDelivers DEF Queue!Next
<1>3. CASE irq_handler_keyboard /\ ~(irq_registered /\ port \in {"A", "ENTER"})
  BY <1>3, QueueStutters DEF irq_handler_keyboard, keyboard_handler, Modify, buffer_vars
<1>4. CASE \/ \E scancode \in Scancodes : press(scancode)
           \/ irq_handler_timer \/ keyboard_init
           \/ \E ms \in Durations : sys_sleep(ms)
  BY <1>4, QueueStutters DEF press, irq_handler_timer, keyboard_init, sys_sleep, buffer_vars
<1>5. CASE reader /\ ~advance
  BY <1>5, QueueStutters
  DEF reader, keyboard_get_char, keyboard_has_char, hlt, read_char, sleep_loop,
      sleep_hlt, sleep_returns, buffer_vars
<1>6. CASE UNCHANGED vars
  BY <1>6, QueueStutters DEF vars, buffer_vars
<1> QED BY <1>1, <1>2, <1>3, <1>4, <1>5, <1>6 DEF Next

(* The ring buffer implements the queue of module CharQueue, for every size *)
(* and every interleaving of the interrupt handlers with the reader.        *)
THEOREM KeyboardImplementsQueue == Spec => ImplementsCharQueue
<1> QED BY DriverInit, DriverStep, QueueInit, QueueStep, PTL
        DEF Spec, ImplementsCharQueue, Queue!Spec
=============================================================================
