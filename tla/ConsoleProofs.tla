--------------------------- MODULE ConsoleProofs ---------------------------
(* The cursor of the console stays on the screen, for every screen size.    *)
EXTENDS Console, TLAPS

IInv == TypeOK /\ CursorOnScreen

(* What console_putchar moves the cursor to is a natural number.            *)
LEMMA MovesUp ==
  ASSUME IInv, NEW c
  PROVE  MoveX(c) \in Nat /\ MoveY(c) \in cursor_y .. cursor_y + 1
<1>1. cursor_x \in Nat /\ cursor_y \in Nat
  BY DEF IInv, TypeOK
<1>2. 4 * ((cursor_x + 4) \div 4) \in Nat
  BY <1>1
<1> QED BY <1>1, <1>2 DEF MoveX, MoveY

(* A character is drawn into a cell of the screen.                          *)
LEMMA DrawnType ==
  ASSUME IInv, NEW c \in Printable \cup Control
  PROVE  Drawn(c) \in [Rows -> [Columns -> Printable \cup {Space}]]
BY DEF IInv, TypeOK, CursorOnScreen, Drawn

(* Scrolling moves rows and blanks the last.                                *)
LEMMA ScrollType ==
  ASSUME NEW buffer \in [Rows -> [Columns -> Printable \cup {Space}]]
  PROVE  console_scroll(buffer) \in [Rows -> [Columns -> Printable \cup {Space}]]
<1>1. BlankRow \in [Columns -> Printable \cup {Space}]
  BY DEF BlankRow
<1>2. \A y \in Rows : y < VGA_HEIGHT - 1 => y + 1 \in Rows
  BY ConsoleAssumption DEF Rows
<1> QED BY <1>1, <1>2 DEF console_scroll

(* Printing a character keeps the invariant.                                *)
LEMMA PutcharPreserves ==
  ASSUME IInv, NEW c \in Printable \cup Control, console_putchar(c)
  PROVE  IInv'
<1> DEFINE x == IF Wraps(MoveX(c)) THEN 0 ELSE MoveX(c)
           y == IF Wraps(MoveX(c)) THEN MoveY(c) + 1 ELSE MoveY(c)
<1>1. x \in Columns /\ y \in Nat
  BY MovesUp, ConsoleAssumption DEF IInv, TypeOK, Wraps, Columns
<1>2. cursor_x' = x
  BY DEF console_putchar
<1>3. cursor_y' \in Rows
  BY <1>1, ConsoleAssumption DEF console_putchar, Rows
<1>4. vga_buffer' \in [Rows -> [Columns -> Printable \cup {Space}]]
  BY DrawnType, ScrollType DEF console_putchar
<1>5. text' \in Seq(Printable \cup Control)
  BY DEF console_putchar, IInv, TypeOK
<1>6. cursor_x' \in Nat /\ cursor_y' \in Nat
  BY <1>1, <1>2, <1>3, ConsoleAssumption DEF Columns, Rows
<1> QED BY <1>1, <1>2, <1>3, <1>4, <1>5, <1>6 DEF IInv, TypeOK, CursorOnScreen

(* The invariant holds in every state of the console.                       *)
THEOREM Invariance == Spec => []IInv
<1>1. console_init => IInv
  BY ConsoleAssumption DEF console_init, IInv, TypeOK, CursorOnScreen, Rows, Columns, BlankRow
<1>2. IInv /\ [Next]_vars => IInv'
  <2> SUFFICES ASSUME IInv, [Next]_vars PROVE IInv'
    OBVIOUS
  <2>1. CASE \E c \in Printable \cup Control : console_putchar(c)
    BY <2>1, PutcharPreserves
  <2>2. CASE console_clear
    BY <2>2, ConsoleAssumption
    DEF console_clear, IInv, TypeOK, CursorOnScreen, Rows, Columns, BlankRow
  <2>3. CASE UNCHANGED vars
    BY <2>3 DEF vars, IInv, TypeOK, CursorOnScreen
  <2> QED BY <2>1, <2>2, <2>3 DEF Next
<1> QED BY <1>1, <1>2, PTL DEF Spec

(* console_putchar never stores outside the VGA buffer.                     *)
THEOREM CursorSafe == Spec => []CursorOnScreen
<1>1. IInv => CursorOnScreen
  BY DEF IInv
<1> QED BY <1>1, Invariance, PTL
=============================================================================
