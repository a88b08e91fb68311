------------------------------- MODULE MCExt4 -------------------------------
(* Two descriptors on drives of two sectors of two bytes, counts of less    *)
(* and of more than a sector, and inodes in three block groups; or the      *)
(* code's sector size and the geometry of its test superblock.              *)
EXTENDS Ext4
=============================================================================
