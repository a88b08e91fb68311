----------------------------- MODULE MCTerminal -----------------------------
(* Two rows of five columns: lines wrap, tabs meet the edge and the screen  *)
(* scrolls several times.                                                   *)
EXTENDS Terminal
=============================================================================
