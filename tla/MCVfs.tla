------------------------------- MODULE MCVfs -------------------------------
(* One file of two bytes, one free name to mount on besides it, one heap    *)
(* slot, and one reserved and two ordinary descriptors.                     *)
EXTENDS Vfs
CONSTANTS f, m
MCNames == {f, m}
MCFiles == <<f>>
MCLength == [x \in {f} |-> 2]
MCOffsets == {-1, 1}
=============================================================================
