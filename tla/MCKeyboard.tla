---------------------------- MODULE MCKeyboard ----------------------------
(* A buffer of three slots holds two characters: it wraps around and fills  *)
(* up within a handful of keys.                                             *)
EXTENDS Keyboard
=============================================================================
