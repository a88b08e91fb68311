----------------------------- MODULE MCPrograms -----------------------------
(* Documents of up to three lines of up to two characters, one with a line  *)
(* that is cut, one without a final newline and an empty one; the disk      *)
(* sizes of the code in units of 2048 sectors, two required files and one   *)
(* application; an executable of six units, headers of one, with one or   *)
(* two segments, some of which lie partly behind its end.                   *)
EXTENDS Programs, MCKeyboardLayouts

MCDocuments == {<<>>, <<"c", "newline", "newline">>, <<"c", "c", "c", "newline", "c">>}

CONSTANTS Executable
MCNames == {Executable}
MCFiles == <<Executable>>
MCLength == [x \in MCNames |-> 6]
MCSegments == [p_type : {"PT_LOAD", "other"}, p_offset : {3, 5}, p_vaddr : {0, 1},
               p_filesz : {0, 2}, p_memsz : {1, 3}]
MCImages == [valid : {TRUE}, phdrs : SeqOf(MCSegments, 2)] \cup [valid : {FALSE}, phdrs : {<<>>}]
=============================================================================
