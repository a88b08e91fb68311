------------------------------ MODULE Keyboard ------------------------------
(***************************************************************************)
(* The PS/2 keyboard driver (src/kernel/core/keyboard.c) and the timer     *)
(* (timer.c) with the parties that share their state: the IRQ 1 handler    *)
(* and the IRQ 0 handler, which run to completion with interrupts          *)
(* disabled, and the program on the CPU, which reads characters in         *)
(* keyboard_get_char or sleeps in sys_sleep and can be interrupted between *)
(* any two of its steps.  The keyboard controller, the PIT and the hlt     *)
(* instruction are modelled from how the drivers use them:                 *)
(*  - the controller holds one scancode and raises IRQ 1 once for it; the  *)
(*    next key is taken only when the handler has read the port;           *)
(*  - the PIT interrupts again and again, at any moment;                   *)
(*  - hlt stops the program until an interrupt has been handled, for ever  *)
(*    when interrupts are disabled.                                        *)
(***************************************************************************)
EXTENDS Integers, Sequences

CONSTANTS
  KB_BUFFER_SIZE,   \* 256 in the code
  MS_PER_TICK,      \* 10, as TIMER_FREQ is 100
  WORD,             \* 2^32: tick_count and milliseconds wrap here
  Durations,        \* milliseconds that programs ask to sleep
  MaxKeys           \* bound of the model: key events per behaviour

ASSUME SizeAssumption == KB_BUFFER_SIZE \in Nat \ {0, 1}
ASSUME KeysAssumption == MaxKeys \in Nat
ASSUME TimerAssumption ==
  /\ {MS_PER_TICK, WORD} \subseteq Nat \ {0}
  /\ Durations \subseteq 0 .. WORD - 1

(* Scancodes: the shift keys with their releases, caps lock, a letter with  *)
(* its release, and Enter.                                                  *)
ShiftKeys == {"LSHIFT", "RSHIFT"}
Scancodes == ShiftKeys \cup {"LSHIFT_UP", "RSHIFT_UP", "CAPSLOCK", "A", "A_UP", "ENTER"}
Release == [k \in ShiftKeys |-> IF k = "LSHIFT" THEN "LSHIFT_UP" ELSE "RSHIFT_UP"]
Chars == {"a", "A", "newline"}
NoScancode == "none"
Blank == "blank"     \* what a slot or the local c holds before its first use
Slots == 0 .. KB_BUFFER_SIZE - 1

VARIABLES
  kb_buffer, kb_read_pos, kb_write_pos,
  shift_pressed, capslock_active,
  tick_count,
  pc,                  \* the program on the CPU: where it stands
  c,                   \* the local variable of keyboard_get_char
  end,                 \* that of sys_sleep; 0 outside of it
  interrupts_enabled,  \* the CPU's IF flag
  irq_registered,      \* irq_handlers[1] # 0
  port, irq1,          \* the controller: scancode held, interrupt raised
  held,                \* shift keys that are physically down
  keys,                \* key events so far
  typed, delivered     \* history: characters produced, characters returned

buffer_vars == <<kb_buffer, kb_read_pos, kb_write_pos>>
modifier_vars == <<shift_pressed, capslock_active>>
key_vars == <<port, irq1, held, keys>>
timer_vars == <<tick_count, end>>
vars == <<kb_buffer, kb_read_pos, kb_write_pos, shift_pressed, capslock_active,
          tick_count, pc, c, end, interrupts_enabled, irq_registered, port, irq1, held, keys,
          typed, delivered>>

TypeOK ==
  /\ kb_buffer \in [Slots -> Chars \cup {Blank}]
  /\ kb_read_pos \in Slots /\ kb_write_pos \in Slots
  /\ shift_pressed \in BOOLEAN /\ capslock_active \in BOOLEAN
  /\ pc \in {"boot", "call", "check", "hlt", "halted", "read", "advance",
             "sleep", "sleep hlt", "asleep"}
  /\ tick_count \in 0 .. WORD - 1 /\ end \in 0 .. WORD - 1
  /\ c \in Chars \cup {Blank}
  /\ interrupts_enabled \in BOOLEAN /\ irq_registered \in BOOLEAN
  /\ port \in Scancodes \cup {NoScancode} /\ irq1 \in BOOLEAN
  /\ held \subseteq ShiftKeys
  /\ keys \in 0 .. MaxKeys
  /\ typed \in Seq(Chars) /\ delivered \in Seq(Chars)

Init ==
  /\ kb_buffer = [i \in Slots |-> Blank]
  /\ kb_read_pos = 0 /\ kb_write_pos = 0
  /\ shift_pressed = FALSE /\ capslock_active = FALSE
  /\ tick_count = 0 /\ end = 0
  /\ pc = "boot" /\ c = Blank
  /\ interrupts_enabled = TRUE /\ irq_registered = FALSE
  /\ port = NoScancode /\ irq1 = FALSE
  /\ held = {} /\ keys = 0
  /\ typed = <<>> /\ delivered = <<>>

-----------------------------------------------------------------------------
(* The user and the controller.                                             *)
press(scancode) ==
  /\ port = NoScancode
  /\ keys < MaxKeys
  /\ \A k \in ShiftKeys : scancode = Release[k] => k \in held
  /\ held' = (held \ {k \in ShiftKeys : scancode = Release[k]})
               \cup ({scancode} \cap ShiftKeys)
  /\ keys' = keys + 1
  /\ port' = scancode
  /\ irq1' = TRUE
  /\ UNCHANGED <<buffer_vars, modifier_vars, timer_vars, pc, c, interrupts_enabled,
                 irq_registered, typed, delivered>>

(* A halted program goes on behind the hlt once an interrupt was handled:   *)
(* with the condition of the loop around it.                                *)
Resumed == IF pc = "halted" THEN "check" ELSE IF pc = "asleep" THEN "sleep" ELSE pc

(* The character of a key, by layout, shift and caps lock.                  *)
CharOf(scancode) ==
  IF scancode = "ENTER" THEN "newline"
  ELSE IF shift_pressed = capslock_active THEN "a" ELSE "A"

(* keyboard_handler for a key that yields a character: it is stored unless  *)
(* the buffer is full.                                                      *)
Store_without_full_check(ch) ==
  /\ kb_buffer' = [kb_buffer EXCEPT ![kb_write_pos] = ch]
  /\ kb_write_pos' = (kb_write_pos + 1) % KB_BUFFER_SIZE
  /\ typed' = Append(typed, ch)
  /\ UNCHANGED <<kb_read_pos, modifier_vars>>

Store(ch) ==
  LET next_pos == (kb_write_pos + 1) % KB_BUFFER_SIZE
  IN /\ IF next_pos # kb_read_pos
        THEN /\ kb_buffer' = [kb_buffer EXCEPT ![kb_write_pos] = ch]
             /\ kb_write_pos' = next_pos
        ELSE UNCHANGED <<kb_buffer, kb_write_pos>>
     /\ typed' = Append(typed, ch)
     /\ UNCHANGED <<kb_read_pos, modifier_vars>>

(* keyboard_handler for the modifier keys and for key releases.             *)
Modify_ignoring_right_shift_release(scancode) ==
  /\ shift_pressed' = ((shift_pressed \/ scancode \in ShiftKeys) /\ scancode # "LSHIFT_UP")
  /\ capslock_active' = (capslock_active # (scancode = "CAPSLOCK"))
  /\ UNCHANGED <<buffer_vars, typed>>

Modify(scancode) ==
  /\ shift_pressed' = ((shift_pressed \/ scancode \in ShiftKeys)
                         /\ scancode \notin {"LSHIFT_UP", "RSHIFT_UP"})
  /\ capslock_active' = (capslock_active # (scancode = "CAPSLOCK"))
  /\ UNCHANGED <<buffer_vars, typed>>

keyboard_handler ==
  /\ port' = NoScancode
  /\ IF port \in {"A", "ENTER"} THEN Store(CharOf(port)) ELSE Modify(port)

(* irq_handler for IRQ 1: the registered handler, if any, then EOI.  Without*)
(* a handler nobody reads the port and the controller stays full.           *)
irq_handler_keyboard ==
  /\ irq1 /\ interrupts_enabled
  /\ irq1' = FALSE
  /\ IF irq_registered
     THEN keyboard_handler
     ELSE UNCHANGED <<port, typed, buffer_vars, modifier_vars>>
  /\ pc' = Resumed
  /\ UNCHANGED <<timer_vars, c, interrupts_enabled, irq_registered, held, keys, delivered>>

(* irq_handler for IRQ 0, 100 times a second: timer_handler counts the tick *)
(* and the interrupt ends a hlt.                                            *)
irq_handler_timer_never ==
  FALSE /\ UNCHANGED vars

irq_handler_timer ==
  /\ interrupts_enabled
  /\ tick_count' = (tick_count + 1) % WORD
  /\ pc' = Resumed
  /\ UNCHANGED <<buffer_vars, modifier_vars, c, end, interrupts_enabled, irq_registered,
                 key_vars, typed, delivered>>

-----------------------------------------------------------------------------
(* kmain: keyboard_init registers the handler, long after irq_init has      *)
(* enabled interrupts; then the reader is started.                          *)
keyboard_init_unregistered ==
  /\ pc = "boot"
  /\ pc' = "call"
  /\ UNCHANGED <<buffer_vars, modifier_vars, c, interrupts_enabled, irq_registered,
                 key_vars, timer_vars, typed, delivered>>

keyboard_init ==
  /\ pc = "boot"
  /\ irq_registered' = TRUE
  /\ pc' = "call"
  /\ UNCHANGED <<buffer_vars, modifier_vars, c, interrupts_enabled, key_vars, timer_vars,
                 typed, delivered>>

(* keyboard_get_char is called: from the kernel's shell, or by sys_read     *)
(* behind the INT 0x80 gate, an interrupt gate (0x8E) that clears IF.       *)
keyboard_get_char(from_syscall) ==
  /\ pc = "call"
  /\ interrupts_enabled' = ~from_syscall
  /\ pc' = "check"
  /\ UNCHANGED <<buffer_vars, modifier_vars, c, irq_registered, key_vars, timer_vars,
                 typed, delivered>>

keyboard_has_char ==
  /\ pc = "check"
  /\ pc' = IF kb_read_pos # kb_write_pos THEN "read" ELSE "hlt"
  /\ UNCHANGED <<buffer_vars, modifier_vars, c, interrupts_enabled, irq_registered,
                 key_vars, timer_vars, typed, delivered>>

hlt ==
  /\ pc = "hlt"
  /\ pc' = "halted"
  /\ UNCHANGED <<buffer_vars, modifier_vars, c, interrupts_enabled, irq_registered,
                 key_vars, timer_vars, typed, delivered>>

(* c = kb_buffer[kb_read_pos], then the position moves on and the call      *)
(* returns (iret restores IF for a system call).                            *)
read_char ==
  /\ pc = "read"
  /\ c' = kb_buffer[kb_read_pos]
  /\ pc' = "advance"
  /\ UNCHANGED <<buffer_vars, modifier_vars, interrupts_enabled, irq_registered,
                 key_vars, timer_vars, typed, delivered>>

advance ==
  /\ pc = "advance"
  /\ kb_read_pos' = (kb_read_pos + 1) % KB_BUFFER_SIZE
  /\ delivered' = Append(delivered, c)
  /\ interrupts_enabled' = TRUE
  /\ pc' = "call"
  /\ UNCHANGED <<kb_buffer, kb_write_pos, modifier_vars, c, irq_registered, key_vars,
                 timer_vars, typed>>

timer_get_uptime_ms == (tick_count * MS_PER_TICK) % WORD

(* sys_sleep, behind the same gate: the loop around a hlt until the time    *)
(* computed at the start has come.                                          *)
sys_sleep(ms) ==
  /\ pc = "call"
  /\ interrupts_enabled' = FALSE
  /\ end' = (timer_get_uptime_ms + ms) % WORD
  /\ pc' = "sleep"
  /\ UNCHANGED <<buffer_vars, modifier_vars, tick_count, c, irq_registered, key_vars,
                 typed, delivered>>

sleep_loop ==
  /\ pc = "sleep" /\ timer_get_uptime_ms < end
  /\ pc' = "sleep hlt"
  /\ UNCHANGED <<buffer_vars, modifier_vars, c, interrupts_enabled, irq_registered,
                 key_vars, timer_vars, typed, delivered>>

sleep_hlt ==
  /\ pc = "sleep hlt"
  /\ pc' = "asleep"
  /\ UNCHANGED <<buffer_vars, modifier_vars, c, interrupts_enabled, irq_registered,
                 key_vars, timer_vars, typed, delivered>>

sleep_returns ==
  /\ pc = "sleep" /\ timer_get_uptime_ms >= end
  /\ interrupts_enabled' = TRUE
  /\ end' = 0
  /\ pc' = "call"
  /\ UNCHANGED <<buffer_vars, modifier_vars, tick_count, c, irq_registered, key_vars,
                 typed, delivered>>

reader ==
  \/ \E from_syscall \in BOOLEAN : keyboard_get_char(from_syscall)
  \/ keyboard_has_char \/ hlt \/ read_char \/ advance
  \/ sleep_loop \/ sleep_hlt \/ sleep_returns

Next ==
  \/ \E scancode \in Scancodes : press(scancode)
  \/ irq_handler_keyboard
  \/ irq_handler_timer
  \/ keyboard_init
  \/ \E ms \in Durations : sys_sleep(ms)
  \/ reader

Spec == Init /\ [][Next]_vars

(* The CPU executes the kernel's instructions, takes a raised interrupt     *)
(* when IF is set, and the PIT keeps ticking; nobody has to press keys or   *)
(* to call sys_sleep.                                                       *)
FairSpec ==
  /\ Spec
  /\ WF_vars(keyboard_init)
  /\ WF_vars(reader)
  /\ WF_vars(irq_handler_keyboard)
  /\ WF_vars(irq_handler_timer)

-----------------------------------------------------------------------------
(* The unread characters, oldest first.                                     *)
Unread == [i \in 1 .. (kb_write_pos - kb_read_pos) % KB_BUFFER_SIZE |->
             kb_buffer[(kb_read_pos + i - 1) % KB_BUFFER_SIZE]]

Queue == INSTANCE CharQueue
           WITH Capacity <- KB_BUFFER_SIZE - 1, queue <- Unread

(* The ring buffer with its two unsynchronised parties is a FIFO: every     *)
(* character is delivered once and in order, the one being read is never    *)
(* overwritten, and a character is dropped only when KB_BUFFER_SIZE - 1     *)
(* unread ones are stored.                                                  *)
ImplementsCharQueue == Queue!Spec

(* Shift does not stick: when the driver believes shift is pressed, a shift *)
(* key is down, or its release is still in the controller.                  *)
ShiftIsHeld ==
  shift_pressed => held # {} \/ port \in {"LSHIFT_UP", "RSHIFT_UP"}

(* The CPU has halted in a system call: no interrupt can end the hlt.       *)
Stuck == pc \in {"halted", "asleep"} /\ ~interrupts_enabled

(* Despite the unprotected window between keyboard_has_char and hlt, a      *)
(* stored character is returned to the reader, because the timer ends the   *)
(* hlt; only a reader that halts inside a system call, or a program that    *)
(* sleeps in one again and again, does not get it.                          *)
CharIsDelivered ==
  \A n \in 1 .. MaxKeys :
    (Len(Unread) + Len(delivered) >= n)
      ~> (Len(delivered) >= n \/ Stuck \/ pc = "sleep")

(* keyboard_get_char blocks only until a key is pressed: a reader that the  *)
(* kernel's shell halted goes on to return a character when the controller  *)
(* raises its interrupt for one.  A key from before keyboard_init, whose    *)
(* interrupt nobody served, raises none.                                    *)
BlockedReaderWakes ==
  (pc = "halted" /\ interrupts_enabled /\ irq1 /\ port \in {"A", "ENTER"})
    ~> (pc = "advance")

(* "Sleep for milliseconds" (the comment on sys_sleep): a program that goes *)
(* to sleep is back after a while.                                          *)
SleepReturns == (pc = "sleep") ~> (pc = "call")
=============================================================================
