----------------------------- MODULE NumberText -----------------------------
(***************************************************************************)
(* Numbers as text: itoa, atoi and printf's %d of src/api/libsys.c, the    *)
(* kernel's print_int (src/kernel/core/console.c), which is the same       *)
(* algorithm as %d, and the parse_int of src/apps/procmon/procmon.c.  A    *)
(* program prints a number and, as with a pid and the kill command, reads  *)
(* it back.  Integers have the range -HALF .. HALF - 1 and wrap; a text is *)
(* the sequence of its digits, with Minus for the sign.                    *)
(***************************************************************************)
EXTENDS Integers, SequencesExt

CONSTANT HALF        \* 2^31

ASSUME HalfAssumption == HALF \in Nat \ {0}

Minus == -1
Ints == -HALF .. HALF - 1
Wrap(n) == ((n + HALF) % (2 * HALF)) - HALF

(* C's division truncates towards zero.                                     *)
Quotient(n) == IF n < 0 THEN -((-n) \div 10) ELSE n \div 10

-----------------------------------------------------------------------------
(* The loop of itoa for base 10, last digit first: the table it indexes     *)
(* with the remainder, which has the sign of the number, is symmetric.      *)
Abs(n) == IF n < 0 THEN -n ELSE n

Digits[n \in Ints] ==
  LET digit == Abs(n - Quotient(n) * 10)
  IN IF Quotient(n) = 0 THEN <<digit>> ELSE Append(Digits[Quotient(n)], digit)

(* printf's %d and print_int: the sign first, then the digits of -n, for    *)
(* which the loop runs while it is positive.                                *)
Positive(n) == IF n > 0 THEN Digits[n] ELSE <<>>

print_int(n) ==
  IF n = 0 THEN <<0>>
  ELSE IF n < 0 THEN <<Minus>> \o Positive(Wrap(-n)) ELSE Positive(n)

itoa_of_negated(n) == print_int(n)

itoa(n) == IF n < 0 THEN <<Minus>> \o Digits[n] ELSE Digits[n]

-----------------------------------------------------------------------------
(* atoi, and parse_int, which knows no sign.                                *)
AddDigit(result, digit) == Wrap(result * 10 + digit)

parse_int(text) ==
  LET signs == {i \in 1 .. Len(text) : text[i] = Minus}
  IN FoldLeft(AddDigit, 0, IF signs = {} THEN text ELSE SubSeq(text, 1, Min(signs) - 1))

atoi(text) ==
  IF text # <<>> /\ Head(text) = Minus
  THEN Wrap(-parse_int(Tail(text))) ELSE parse_int(text)

-----------------------------------------------------------------------------
VARIABLES
  number,    \* the number
  text,      \* what was printed of it; empty: nothing yet
  printer,   \* which function printed it
  result     \* what was read back

number_vars == <<number, text, printer, result>>

NumberInit(numbers) ==
  number \in numbers /\ text = <<>> /\ printer = "none" /\ result = <<>>

print_number(by) ==
  /\ text = <<>>
  /\ printer' = by
  /\ text' = IF by = "itoa" THEN itoa(number) ELSE print_int(number)
  /\ UNCHANGED <<number, result>>

read_number(by) ==
  /\ text # <<>> /\ result = <<>>
  /\ result' = <<by, IF by = "atoi" THEN atoi(text) ELSE parse_int(text)>>
  /\ UNCHANGED <<number, text, printer>>

NumberNext ==
  \/ \E by \in {"itoa", "printf"} : print_number(by)
  \/ \E by \in {"atoi", "parse_int"} : read_number(by)

NumberSpec == NumberInit(Ints) /\ [][NumberNext]_number_vars

(* A number printed is read back as it was: by atoi after itoa every one,   *)
(* the smallest included, whose digits itoa takes from negative remainders; *)
(* after printf or print_int every one but the smallest, of which they      *)
(* print the sign only; by parse_int every one without a sign.              *)
NumbersReadBack ==
  result # <<>> /\ (printer = "itoa" \/ number # -HALF) /\ (result[1] = "atoi" \/ number >= 0)
    => result[2] = number
=============================================================================
