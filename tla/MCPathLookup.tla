---------------------------- MODULE MCPathLookup ----------------------------
(* Archives of up to three entries for a table of two files; mounts at /x,  *)
(* /xx and /x/x; paths of up to four characters.                           *)
EXTENDS PathLookup
MCMountPaths == {<<"/", "x">>, <<"/", "x", "x">>, <<"/", "x", "/", "x">>}
=============================================================================
