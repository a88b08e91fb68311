------------------------------- MODULE MCHeap -------------------------------
(* The code's header, alignment and split threshold in a heap of 144        *)
(* bytes: room for up to five blocks, so that blocks are split, taken       *)
(* whole, merged and left as fragments in every order.                      *)
EXTENDS Heap
=============================================================================
