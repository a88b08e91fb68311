------------------------------ MODULE Terminal ------------------------------
(***************************************************************************)
(* Reading a line at the console: keyboard_read_line (keyboard.c) with the *)
(* echo it prints through console_putchar.  Its callers are the kernel's   *)
(* shell, with a 256-byte buffer, and sys_read(STDIN), which the           *)
(* applications' readln (src/api/libsys.c) calls for one byte at a time.   *)
(* Between lines anything may be printed or the screen cleared.  The       *)
(* characters come from keyboard_get_char (module Keyboard).               *)
(***************************************************************************)
EXTENDS Console, SequencesExt

CONSTANTS
  Extended,   \* the characters >= 128 (umlauts) among Printable
  MaxLen,     \* size of the caller's buffer
  MaxKeys     \* bound of the model: keys read for a line

ASSUME TerminalAssumption ==
  /\ Extended \subseteq Printable /\ Space \in Printable
  /\ MaxLen \in Nat \ {0} /\ MaxKeys \in Nat

Keys == Printable \cup {"tab", "backspace", "newline"}

VARIABLES
  pc,        \* "idle"; "call" in readln; "get", "return" in keyboard_read_line
  caller,    \* who called keyboard_read_line last
  max_len,   \* its parameter
  kline,     \* its buffer[0 .. pos-1]
  line,      \* readln's buf[0 .. pos-1]
  echo,      \* what is still to be printed before the next step
  keys,      \* history: the keys read for this line,
  start,     \* the column it started in,
  widest     \* and its greatest length so far

line_vars == <<pc, caller, max_len, kline, line, echo, keys, start, widest>>
terminal_vars == <<vars, line_vars>>

TerminalInit ==
  /\ console_init
  /\ pc = "idle" /\ caller = "shell" /\ max_len = MaxLen
  /\ kline = <<>> /\ line = <<>> /\ echo = <<>>
  /\ keys = <<>> /\ start = 0 /\ widest = 0

-----------------------------------------------------------------------------
(* What the kernel and the applications print between two lines, the        *)
(* prompt included.                                                         *)
output ==
  /\ pc = "idle" /\ echo = <<>>
  /\ Next
  /\ UNCHANGED line_vars

(* The echo of a key, a character at a time.                                *)
echo_char ==
  /\ echo # <<>>
  /\ console_putchar(Head(echo))
  /\ echo' = Tail(echo)
  /\ UNCHANGED <<pc, caller, max_len, kline, line, keys, start, widest>>

(* keyboard_read_line is entered.                                           *)
Called(who, len) ==
  /\ caller' = who /\ max_len' = len
  /\ kline' = <<>> /\ keys' = <<>> /\ widest' = 0
  /\ start' = cursor_x
  /\ pc' = "get"
  /\ UNCHANGED <<vars, echo>>

shell_reads ==
  /\ pc = "idle" /\ echo = <<>>
  /\ Called("shell", MaxLen)
  /\ UNCHANGED line

(* Back to the caller, who takes the line; the locals are gone.             *)
Returned(printing) ==
  /\ pc' = "idle" /\ echo' = printing
  /\ kline' = <<>> /\ keys' = <<>> /\ line' = <<>>
  /\ start' = 0 /\ widest' = 0
  /\ UNCHANGED <<vars, caller, max_len>>

(* readln, and the head of its loop: sys_read(STDIN, &c, 1), or a newline   *)
(* and the end.                                                             *)
readln ==
  /\ pc = "idle" /\ echo = <<>>
  /\ pc' = "call"
  /\ UNCHANGED <<vars, caller, max_len, kline, line, echo, keys, start, widest>>

readln_reads ==
  /\ pc = "call" /\ echo = <<>>
  /\ IF Len(line) < MaxLen - 1
     THEN Called("application", 1) /\ UNCHANGED line
     ELSE Returned(<<"newline">>)

(* One round of keyboard_read_line's loop: the key, the line, the echo.     *)
Room == Len(kline) < max_len - 1

Edited_ignoring_backspace(s, c) == IF c \in Printable THEN Append(s, c) ELSE s

Edited(s, c) ==
  IF c \in Printable THEN Append(s, c)
  ELSE IF c = "backspace" /\ s # <<>> THEN Front(s) ELSE s

Echo_of_every_backspace(s, c) ==
  IF c = "backspace" THEN <<"backspace", Space, "backspace">>
  ELSE IF c = "tab" THEN <<>> ELSE <<c>>

Echo(s, c) ==
  IF c \in Printable \cup {"newline"} THEN <<c>>
  ELSE IF c = "backspace" /\ s # <<>> THEN <<"backspace", Space, "backspace">>
  ELSE <<>>

keyboard_read_line_round(c) ==
  /\ pc = "get" /\ echo = <<>> /\ Room
  /\ Len(keys) < MaxKeys
  /\ keys' = Append(keys, c)
  /\ kline' = Edited(kline, c)
  /\ echo' = Echo(kline, c)
  /\ widest' = IF Len(kline') > widest THEN Len(kline') ELSE widest
  /\ pc' = IF c = "newline" THEN "return" ELSE "get"
  /\ UNCHANGED <<vars, caller, max_len, line, start>>

keyboard_read_line_full ==
  /\ pc = "get" /\ echo = <<>> /\ ~Room
  /\ pc' = "return"
  /\ UNCHANGED <<vars, caller, max_len, kline, line, echo, keys, start, widest>>

shell_returns ==
  /\ pc = "return" /\ echo = <<>> /\ caller = "shell"
  /\ Returned(<<>>)

(* readln goes on with the byte it was given, or prints a newline and       *)
(* returns; sys_read's result is the length of the line the kernel read.    *)
readln_returns ==
  /\ pc = "return" /\ echo = <<>> /\ caller = "application"
  /\ IF kline = <<>>
     THEN Returned(<<"newline">>)
     ELSE LET kept == Head(kline) \in Printable \ Extended
          IN /\ line' = IF kept THEN Append(line, Head(kline)) ELSE line
             /\ echo' = IF kept THEN <<Head(kline)>> ELSE <<>>
             /\ pc' = "call"
             /\ UNCHANGED <<vars, caller, max_len, kline, keys, start, widest>>

TerminalNext ==
  \/ output
  \/ echo_char
  \/ shell_reads
  \/ readln
  \/ readln_reads
  \/ \E c \in Keys : keyboard_read_line_round(c)
  \/ keyboard_read_line_full
  \/ shell_returns
  \/ readln_returns

TerminalSpec == TerminalInit /\ [][TerminalNext]_terminal_vars

-----------------------------------------------------------------------------
(* A character stays on the line unless the backspaces that follow it       *)
(* outnumber, at some point, the characters typed between.                  *)
Survives(s, i) ==
  /\ s[i] \in Printable
  /\ \A j \in i + 1 .. Len(s) :
       Cardinality({k \in i + 1 .. j : s[k] = "backspace"})
         <= Cardinality({k \in i + 1 .. j : s[k] \in Printable})

Survivors(s) ==
  LET kept == {i \in 1 .. Len(s) : Survives(s, i)}
      nth(n) == CHOOSE i \in kept : Cardinality({j \in kept : j <= i}) = n
  IN [n \in 1 .. Cardinality(kept) |-> s[nth(n)]]

(* keyboard_read_line holds exactly the characters no backspace has erased, *)
(* whatever the order of characters and backspaces, and the line with its   *)
(* terminator stays inside the caller's buffer, one of one byte included.   *)
LineIsWhatSurvives == kline = Survivors(keys) /\ Len(kline) + 1 <= max_len

(* The user sees the line that will be returned: as long as it has not      *)
(* reached the right edge, the echo has the line's characters behind the    *)
(* prompt, blanks where backspaces took some away, and the cursor behind.   *)
EchoShowsLine ==
  pc = "get" /\ echo = <<>> /\ start + widest < VGA_WIDTH =>
    /\ cursor_x = start + Len(kline)
    /\ \A i \in 1 .. widest :
         vga_buffer[cursor_y][start + i - 1] = IF i <= Len(kline) THEN kline[i] ELSE Space

(* The pen of a printer: it moves as the characters say and never scrolls.  *)
Pen(p, c) ==
  LET x == CASE c \in {"newline", "return"} -> 0
             [] c = "tab"       -> p.x + 4 - (p.x % 4)
             [] c = "backspace" -> IF p.x = 0 THEN 0 ELSE p.x - 1
             [] OTHER           -> p.x + 1
      down == c = "newline" \/ x >= VGA_WIDTH
  IN [x |-> IF x >= VGA_WIDTH THEN 0 ELSE x,
      y |-> IF down THEN p.y + 1 ELSE p.y,
      ink |-> IF c \in Control THEN p.ink
              ELSE {i \in p.ink : i[1] # <<p.y, p.x>>} \cup {<<<<p.y, p.x>>, c>>}]

Paper == FoldLeft(Pen, [x |-> 0, y |-> 0, ink |-> {}], text)

InkAt(paper, y, x) ==
  IF \E i \in paper.ink : i[1] = <<y, x>>
  THEN (CHOOSE i \in paper.ink : i[1] = <<y, x>>)[2] ELSE Space

(* The screen shows the last VGA_HEIGHT rows of everything printed since it *)
(* was cleared, as on a sheet of paper without a bottom, and the cursor is  *)
(* where the next character belongs: console_scroll loses rows only at the  *)
(* top.                                                                     *)
ShowsLastRows ==
  LET paper == Paper
      top == IF paper.y >= VGA_HEIGHT THEN paper.y - VGA_HEIGHT + 1 ELSE 0
  IN /\ cursor_x = paper.x /\ cursor_y = paper.y - top
     /\ \A y \in Rows, x \in Columns : vga_buffer[y][x] = InkAt(paper, top + y, x)
=============================================================================
