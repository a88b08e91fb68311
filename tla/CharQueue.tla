----------------------------- MODULE CharQueue -----------------------------
(***************************************************************************)
(* What the keyboard buffer promises: a FIFO of characters that keeps what *)
(* it has accepted and, when full, refuses the character being typed.      *)
(***************************************************************************)
EXTENDS Naturals, Sequences

CONSTANTS Chars, Capacity

VARIABLES typed,      \* every character the keys produced, in order
          queue,      \* accepted and not yet read
          delivered   \* returned to the reader, in order

vars == <<typed, queue, delivered>>

Init == typed = <<>> /\ queue = <<>> /\ delivered = <<>>

Type(c) ==
  /\ typed' = Append(typed, c)
  /\ queue' = IF Len(queue) < Capacity THEN Append(queue, c) ELSE queue
  /\ UNCHANGED delivered

Deliver ==
  /\ queue # <<>>
  /\ delivered' = Append(delivered, Head(queue))
  /\ queue' = Tail(queue)
  /\ UNCHANGED typed

Next == (\E c \in Chars : Type(c)) \/ Deliver

Spec == Init /\ [][Next]_vars
=============================================================================
