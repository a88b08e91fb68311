------------------------------- MODULE Editor -------------------------------
(***************************************************************************)
(* The text editor, src/apps/editor/editor.c: one document, the commands   *)
(* that change it, and the file it is loaded from and saved to.  A line is *)
(* represented by its length, a file by its characters.  The system calls  *)
(* may fail; a file that cannot be written keeps its contents.             *)
(***************************************************************************)
EXTENDS Integers, SequencesExt

CONSTANTS
  MAX_LINES,      \* 1000
  MAX_LINE_LEN,   \* 256, the terminator included
  BUFFER,         \* 4095: what load_file reads of a file
  Documents       \* files the editor may be started with

ASSUME EditorAssumption ==
  /\ {MAX_LINES, BUFFER} \subseteq Nat \ {0} /\ MAX_LINE_LEN \in Nat \ {0, 1}
  /\ \A d \in Documents : d \in Seq({"c", "newline"})

LineLength == 0 .. MAX_LINE_LEN - 1
Text == LineLength \ {0}      \* what readln returns for something typed

VARIABLES
  lines, modified,
  document,    \* the file's contents
  mode,        \* "start", "prompt", "insert" (inside :i) or "closed"
  line_num,    \* where :i inserts next
  command,     \* the last command
  before, inserted, asked   \* history of :i: the lines found, the texts put in, its argument

editor_history == <<before, inserted, asked>>
editor_vars == <<lines, modified, document, mode, line_num, command, editor_history>>

EditorTypeOK ==
  /\ lines \in Seq(LineLength) /\ Len(lines) <= MAX_LINES
  /\ modified \in BOOLEAN
  /\ document \in Seq({"c", "newline"})
  /\ mode \in {"start", "prompt", "insert", "closed"}
  /\ line_num \in Int

(* editor_init: one empty line.                                             *)
EditorInit(documents) ==
  /\ lines = <<0>> /\ modified = FALSE
  /\ document \in documents
  /\ mode = "start" /\ line_num = 0 /\ command = "none"
  /\ before = <<>> /\ inserted = <<>> /\ asked = 0

-----------------------------------------------------------------------------
(* load_file's loop over the characters it read: done lines, and line_pos.  *)
ParseChar_keeping_position(s, ch) ==
  IF Len(s.done) >= MAX_LINES THEN s
  ELSE IF ch = "newline" THEN [s EXCEPT !.done = Append(@, s.line_pos)]
  ELSE IF s.line_pos < MAX_LINE_LEN - 1 THEN [s EXCEPT !.line_pos = @ + 1]
  ELSE s

ParseChar(s, ch) ==
  IF Len(s.done) >= MAX_LINES THEN s
  ELSE IF ch = "newline" THEN [done |-> Append(s.done, s.line_pos), line_pos |-> 0]
  ELSE IF s.line_pos < MAX_LINE_LEN - 1 THEN [s EXCEPT !.line_pos = @ + 1]
  ELSE s

Parsed(chars) ==
  LET s == FoldLeft(ParseChar, [done |-> <<>>, line_pos |-> 0],
                    SubSeq(chars, 1, IF Len(chars) < BUFFER THEN Len(chars) ELSE BUFFER))
      all == IF s.line_pos > 0 /\ Len(s.done) < MAX_LINES
             THEN Append(s.done, s.line_pos) ELSE s.done
  IN IF all = <<>> THEN <<0>> ELSE all

load_file ==
  /\ mode = "start"
  /\ mode' = "prompt"
  /\ \/ lines' = Parsed(document)  \* an empty document keeps its old first line, which is empty
     \/ lines' = <<>>              \* the read failed
     \/ lines' = lines             \* no file given, or it does not open
  /\ UNCHANGED <<modified, document, line_num, command, before, inserted, asked>>

(* save_file: the results of sys_write are not looked at.                   *)
Bytes(ls) == FlattenSeq([i \in 1 .. Len(ls) |->
               [k \in 1 .. ls[i] + 1 |-> IF k <= ls[i] THEN "c" ELSE "newline"]])

save_file(written) ==
  /\ document' = IF written THEN Bytes(lines) ELSE document
  /\ modified' = FALSE

(* process_command tests for "w" first, so "wq" is a ":w" too.  A result    *)
(* other than 0 ends the editor: that of a save which could not open the    *)
(* file.                                                                    *)
cmd_write(cmd) ==
  /\ mode = "prompt"
  /\ command' = cmd
  /\ \E written \in BOOLEAN : save_file(written)
  /\ UNCHANGED <<lines, mode, line_num, before, inserted, asked>>

cmd_write_fails(cmd) ==
  /\ mode = "prompt"
  /\ command' = cmd
  /\ mode' = "closed"
  /\ UNCHANGED <<lines, modified, document, line_num, editor_history>>

cmd_quit ==
  /\ mode = "prompt"
  /\ command' = "q"
  /\ mode' = IF modified THEN "prompt" ELSE "closed"
  /\ UNCHANGED <<lines, modified, document, line_num, editor_history>>

cmd_force_quit ==
  /\ mode = "prompt"
  /\ command' = "q!" /\ mode' = "closed"
  /\ UNCHANGED <<lines, modified, document, line_num, editor_history>>

(* :d: deleting the last line leaves one empty line.                        *)
cmd_delete(n) ==
  /\ mode = "prompt" /\ command' = "d"
  /\ n \in 0 .. Len(lines) - 1
  /\ lines' = IF Len(lines) = 1 THEN <<0>> ELSE RemoveAt(lines, n + 1)
  /\ modified' = TRUE
  /\ UNCHANGED <<document, mode, line_num, editor_history>>

(* :i: texts are inserted until an empty line is entered.                   *)
cmd_insert(n) ==
  /\ mode = "prompt" /\ command' = "i"
  /\ mode' = "insert" /\ line_num' = n
  /\ before' = lines /\ inserted' = <<>> /\ asked' = n
  /\ UNCHANGED <<lines, modified, document>>

At(n) == IF n < 0 \/ n > Len(lines) THEN Len(lines) ELSE n

insert_line_in_place(text) ==
  /\ mode = "insert"
  /\ IF Len(lines) >= MAX_LINES
     THEN UNCHANGED <<lines, modified, inserted, line_num>>
     ELSE /\ lines' = InsertAt(lines, At(line_num) + 1, text)
          /\ modified' = TRUE
          /\ inserted' = Append(inserted, text)
          /\ line_num' = line_num
  /\ UNCHANGED <<document, mode, command, before, asked>>

insert_line(text) ==
  /\ mode = "insert"
  /\ IF Len(lines) >= MAX_LINES
     THEN UNCHANGED <<lines, modified, inserted>>
     ELSE /\ lines' = InsertAt(lines, At(line_num) + 1, text)
          /\ modified' = TRUE
          /\ inserted' = Append(inserted, text)
  /\ line_num' = IF line_num <= MAX_LINES THEN line_num + 1 ELSE line_num   \* bound of the model
  /\ UNCHANGED <<document, mode, command, before, asked>>

insert_end ==
  /\ mode = "insert" /\ mode' = "prompt"
  /\ line_num' = 0 /\ before' = <<>> /\ inserted' = <<>> /\ asked' = 0   \* out of scope
  /\ UNCHANGED <<lines, modified, document, command>>

append_line(text) ==
  /\ mode = "prompt" /\ command' = "text"
  /\ Len(lines) < MAX_LINES
  /\ lines' = Append(lines, text) /\ modified' = TRUE
  /\ UNCHANGED <<document, mode, line_num, editor_history>>

EditorNext ==
  \/ load_file
  \/ \E cmd \in {"w", "wq"} : cmd_write(cmd) \/ cmd_write_fails(cmd)
  \/ cmd_quit
  \/ cmd_force_quit
  \/ \E n \in -1 .. MAX_LINES : cmd_delete(n) \/ cmd_insert(n)
  \/ \E text \in Text : insert_line(text) \/ append_line(text)
  \/ insert_end

EditorSpec == EditorInit(Documents) /\ [][EditorNext]_editor_vars

-----------------------------------------------------------------------------
(* The texts entered after :i n stand together, in the order entered, at    *)
(* line n, with what was there moved down, however many the document takes. *)
InsertIsContiguous ==
  mode = "insert" /\ asked >= 0 =>
    LET at == IF asked > Len(before) THEN Len(before) ELSE asked
    IN lines = SubSeq(before, 1, at) \o inserted \o SubSeq(before, at + 1, Len(before))

(* A document that is saved and fits the read buffer is loaded again line   *)
(* by line, empty lines included.                                           *)
SaveAndLoadAgree ==
  lines # <<>> /\ Len(Bytes(lines)) <= BUFFER => Parsed(Bytes(lines)) = lines
=============================================================================
