----------------------------- MODULE Calculator -----------------------------
(***************************************************************************)
(* The calculator, src/apps/calculator/calculator.c: the main loop with    *)
(* its pending operation.  What a number is worth as a double does not     *)
(* matter to the loop, except whether an operand is zero: the accumulator  *)
(* is represented by the operations that made it, a sequence of pairs      *)
(* <<operator, operand>> that starts from 0.0 or, with "=", from the       *)
(* operand.                                                                *)
(***************************************************************************)
EXTENDS Integers, Sequences, FiniteSetsExt

CONSTANTS
  Numbers,     \* what is entered; 0 is the zero of the doubles
  MaxInputs    \* bound of the model: inputs since the calculator was cleared

ASSUME CalculatorAssumption == Numbers \subseteq Nat /\ MaxInputs \in Nat

Operators == {"+", "-", "*", "/", "="}

VARIABLES
  accumulator, operand, pending_op, entering_number, error_state,
  display,     \* the value display_value printed last
  quit,        \* the loop was left
  entered      \* history: operators and numbers since the calculator was cleared

calculator_vars == <<accumulator, operand, pending_op, entering_number, error_state,
                     display, quit, entered>>

CalculatorTypeOK ==
  /\ accumulator \in Seq(Operators \X Numbers)
  /\ operand \in Numbers \cup {0}
  /\ pending_op \in Operators
  /\ entering_number \in BOOLEAN /\ error_state \in BOOLEAN /\ quit \in BOOLEAN

(* clear_calculator, followed by display_value as main does.                *)
CalculatorInit ==
  /\ accumulator = <<>> /\ operand = 0 /\ pending_op = "="
  /\ entering_number = FALSE /\ error_state = FALSE
  /\ display = <<>> /\ quit = FALSE /\ entered = <<>>

-----------------------------------------------------------------------------
(* execute_operation: the accumulator and the error state it leaves.  The   *)
(* division that failed stands for the text ERROR.                          *)
Error == << <<"/", 0>> >>
DividesByZero == pending_op = "/" /\ operand = 0

Executed ==
  IF DividesByZero THEN <<>>
  ELSE IF pending_op = "=" THEN << <<"=", operand>> >>
  ELSE Append(accumulator, <<pending_op, operand>>)

execute_operation ==
  IF error_state
  THEN UNCHANGED <<accumulator, error_state>>
  ELSE /\ accumulator' = Executed
       /\ error_state' = DividesByZero

display_value == display' = IF error_state' THEN Error ELSE accumulator'

calculator_command(input) ==
  /\ ~quit /\ input \in {"q", "h", "c"}
  /\ quit' = (input = "q")
  /\ IF input = "c"
     THEN /\ accumulator' = <<>> /\ operand' = 0 /\ pending_op' = "="
          /\ entering_number' = FALSE /\ error_state' = FALSE
          /\ entered' = <<>>
     ELSE UNCHANGED <<accumulator, operand, pending_op, entering_number, error_state, entered>>
  /\ IF input = "q" THEN UNCHANGED display ELSE display_value

(* An operator: what is pending is done with the number just entered; then  *)
(* the operator waits for the next one.                                     *)
calculator_operator_keeping_number(op) ==
  /\ ~quit /\ Len(entered) < MaxInputs
  /\ IF entering_number THEN execute_operation /\ display_value
     ELSE UNCHANGED <<accumulator, error_state, display>>
  /\ UNCHANGED entering_number
  /\ pending_op' = op
  /\ entered' = Append(entered, [op |-> op])
  /\ UNCHANGED <<operand, quit>>

calculator_operator(op) ==
  /\ ~quit /\ Len(entered) < MaxInputs
  /\ IF entering_number THEN execute_operation /\ display_value
     ELSE UNCHANGED <<accumulator, error_state, display>>
  /\ entering_number' = FALSE
  /\ pending_op' = op
  /\ entered' = Append(entered, [op |-> op])
  /\ UNCHANGED <<operand, quit>>

calculator_number(value) ==
  /\ ~quit /\ Len(entered) < MaxInputs
  /\ operand' = value
  /\ entering_number' = TRUE
  /\ entered' = Append(entered, [number |-> value])
  /\ UNCHANGED <<accumulator, pending_op, error_state, display, quit>>

CalculatorNext ==
  \/ \E input \in {"q", "h", "c"} : calculator_command(input)
  \/ \E op \in Operators : calculator_operator(op)
  \/ \E value \in Numbers : calculator_number(value)

CalculatorSpec == CalculatorInit /\ [][CalculatorNext]_calculator_vars

-----------------------------------------------------------------------------
(* What the user entered, read as a formula: of several numbers in a row    *)
(* the last counts, of several operators the last; an operator ends the     *)
(* number before it.                                                        *)
IsOp(i) == "op" \in DOMAIN entered[i]
Terms == {i \in 1 .. Len(entered) - 1 : ~IsOp(i) /\ IsOp(i + 1)}
OpBefore(i) ==
  LET ops == {j \in 1 .. i : IsOp(j)} IN IF ops = {} THEN "=" ELSE entered[Max(ops)].op
Formula ==
  LET start == {i \in Terms : OpBefore(i) = "="}
      used == {i \in Terms : start = {} \/ i >= Max(start)}
      nth(n) == CHOOSE i \in used : Cardinality({j \in used : j <= i}) = n
  IN [n \in 1 .. Cardinality(used) |-> <<OpBefore(nth(n)), entered[nth(n)].number>>]

(* The display shows the formula entered since the last "=", worked out     *)
(* from left to right with every number used once, whatever operators were  *)
(* replaced or numbers corrected on the way; after a division by zero it    *)
(* shows ERROR until the calculator is cleared.                             *)
DisplayIsTheFormula ==
  display = IF \E i \in Terms : OpBefore(i) = "/" /\ entered[i].number = 0
            THEN Error ELSE Formula
=============================================================================
