------------------------------ MODULE Console ------------------------------
(***************************************************************************)
(* The text console, src/kernel/core/console.c: the VGA buffer, the cursor *)
(* and console_putchar, through which console_write, console_writen and    *)
(* kprintf all print.  Colours are left out.                               *)
(***************************************************************************)
EXTENDS Integers, Sequences

CONSTANTS
  VGA_WIDTH, VGA_HEIGHT,   \* 80 and 25
  Printable,               \* what is stored in a cell; a blank cell holds Space
  Space,
  MaxText                  \* bound of the model: characters printed between two clears

Control == {"newline", "return", "tab", "backspace"}

ASSUME ConsoleAssumption ==
  /\ VGA_WIDTH \in Nat \ {0} /\ VGA_HEIGHT \in Nat \ {0} /\ MaxText \in Nat
  /\ Printable \cap Control = {}

Rows == 0 .. VGA_HEIGHT - 1
Columns == 0 .. VGA_WIDTH - 1

VARIABLES
  vga_buffer, cursor_x, cursor_y,
  text          \* history: what was printed since the screen was cleared

vars == <<vga_buffer, cursor_x, cursor_y, text>>

TypeOK ==
  /\ vga_buffer \in [Rows -> [Columns -> Printable \cup {Space}]]
  /\ cursor_x \in Nat /\ cursor_y \in Nat
  /\ text \in Seq(Printable \cup Control)

BlankRow == [x \in Columns |-> Space]

(* console_init and console_clear.                                          *)
console_init ==
  /\ vga_buffer = [y \in Rows |-> BlankRow]
  /\ cursor_x = 0 /\ cursor_y = 0
  /\ text = <<>>

console_clear ==
  /\ vga_buffer' = [y \in Rows |-> BlankRow]
  /\ cursor_x' = 0 /\ cursor_y' = 0
  /\ text' = <<>>

-----------------------------------------------------------------------------
console_scroll_keeping_bottom(buffer) ==
  [y \in Rows |-> IF y < VGA_HEIGHT - 1 THEN buffer[y + 1] ELSE buffer[y]]

console_scroll(buffer) ==
  [y \in Rows |-> IF y < VGA_HEIGHT - 1 THEN buffer[y + 1] ELSE BlankRow]

(* Where a character leaves the cursor before the two limits are applied.   *)
MoveX(c) ==
  IF c \in {"newline", "return"} THEN 0
  ELSE IF c = "tab" THEN 4 * ((cursor_x + 4) \div 4)
  ELSE IF c = "backspace" THEN (IF cursor_x > 0 THEN cursor_x - 1 ELSE cursor_x)
  ELSE cursor_x + 1

MoveY(c) == IF c = "newline" THEN cursor_y + 1 ELSE cursor_y

Wraps_past_edge(x) == x > VGA_WIDTH

Wraps(x) == x >= VGA_WIDTH

Drawn(c) ==
  IF c \in Control THEN vga_buffer
  ELSE [vga_buffer EXCEPT ![cursor_y] = [@ EXCEPT ![cursor_x] = c]]

console_putchar(c) ==
  LET x == IF Wraps(MoveX(c)) THEN 0 ELSE MoveX(c)
      y == IF Wraps(MoveX(c)) THEN MoveY(c) + 1 ELSE MoveY(c)
  IN /\ Len(text) < MaxText
     /\ text' = Append(text, c)
     /\ cursor_x' = x
     /\ IF y >= VGA_HEIGHT
        THEN vga_buffer' = console_scroll(Drawn(c)) /\ cursor_y' = VGA_HEIGHT - 1
        ELSE vga_buffer' = Drawn(c) /\ cursor_y' = y

Next ==
  \/ \E c \in Printable \cup Control : console_putchar(c)
  \/ console_clear

Spec == console_init /\ [][Next]_vars

-----------------------------------------------------------------------------
(* The cell console_putchar stores to is one of the screen's, whatever was  *)
(* printed before: tabs at the right edge, wrapped lines and scrolling      *)
(* leave the cursor inside the buffer at 0xB8000.                           *)
CursorOnScreen == cursor_x \in Columns /\ cursor_y \in Rows
=============================================================================
