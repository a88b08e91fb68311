-------------------------- MODULE KeyboardLayouts --------------------------
(***************************************************************************)
(* Keyboard layouts: the loader that runs at every boot,                   *)
(* src/kernel/core/keyboard_loader.c, and the utility that chooses the     *)
(* layout for the next boot, src/apps/kbmap/kbmap.c.  They share the       *)
(* layout files and /etc/keyboard/active.conf, each with a parser of its   *)
(* own.  A file is a sequence of lines; the names and descriptions in it   *)
(* count as comments.  config is the code on the layout line of            *)
(* active.conf.                                                            *)
(***************************************************************************)
EXTENDS Integers, SequencesExt

CONSTANTS
  MAX_LAYOUTS,    \* 32, in both programs
  Codes,          \* layout codes in files and in the configuration
  DefaultCode,    \* "en_US"
  Scancodes, Escapes,   \* of lines like "0x1E=a|A"; Escapes maps a text to its escape sequence
  LayoutDirs      \* contents of /etc/keyboard/layouts

ASSUME LayoutsAssumption == MAX_LAYOUTS \in Nat \ {0} /\ DefaultCode \in Codes

NoCode == "no code"      \* the empty string
NoFile == "no file"
Unmapped == "unmapped"

(* parse_escape: a plain character, a letter escape, or "\x41", for which   *)
(* parse_hex is handed the text from the backslash on and finds no digit.   *)
parse_escape(text) ==
  CASE text = "\\n" -> "newline"
    [] text = "\\x41" -> Unmapped     \* the character 0, which the driver ignores
    [] OTHER -> text

(* A kind that ends in a blank is a line with a blank behind the header or  *)
(* before the "=", which trim removes and kbmap does not.                   *)
LayoutLine ==
  [kind : {"comment", "[metadata]", "[metadata] ", "[layout]", "[other]"}]
    \cup [kind : {"code", "code "}, value : Codes]
    \cup [kind : {"key"}, scancode : Scancodes, value : Escapes]

LayoutFile == [ext : {"conf", "layout"}, lines : Seq(LayoutLine)]

VARIABLES
  directory,            \* the layout files, in the order of readdir
  config,
  boot,                 \* "load", "config", "set", "ready", or kbmap's "list" and "command"
  entry,                \* the next directory entry of a loading loop
  layouts,              \* the kernel's loaded_layouts up to layout_count
  current_layout_code,
  active,               \* index of active_runtime_layout; 0 is NULL
  known,                \* kbmap's layouts, by their codes
  chosen                \* history: the code kbmap has reported as set

layout_vars == <<directory, config, boot, entry, layouts, current_layout_code, active,
                 known, chosen>>
kernel_vars == <<layouts, current_layout_code, active>>

LayoutsTypeOK ==
  /\ directory \in Seq(LayoutFile)
  /\ config \in Codes \cup {NoCode, NoFile} /\ chosen \in Codes \cup {NoCode}
  /\ boot \in {"load", "config", "set", "ready", "list", "command"}
  /\ entry \in 1 .. Len(directory) + 1
  /\ Len(layouts) <= MAX_LAYOUTS /\ Len(known) <= MAX_LAYOUTS
  /\ current_layout_code \in Codes \cup {NoCode}
  /\ active \in 0 .. Len(layouts)

LayoutsInit(dirs, configs) ==
  /\ directory \in dirs /\ config \in configs
  /\ boot = "load" /\ entry = 1
  /\ layouts = <<>> /\ current_layout_code = DefaultCode /\ active = 0
  /\ known = <<>> /\ chosen = NoCode

-----------------------------------------------------------------------------
(* parse_layout_file: one line, then the file.                              *)
Zeroed == [section |-> "none", code |-> NoCode, map |-> [s \in Scancodes |-> Unmapped]]

trim(kind) == CASE kind = "[metadata] " -> "[metadata]" [] kind = "code " -> "code" [] OTHER -> kind

Header == {"[metadata]", "[layout]"}

Parse_keeping_metadata(slot, line) ==
  CASE trim(line.kind) \in Header /\ slot.section # "[metadata]"
         -> [slot EXCEPT !.section = trim(line.kind)]
    [] trim(line.kind) = "code" /\ slot.section = "[metadata]" -> [slot EXCEPT !.code = line.value]
    [] line.kind = "key" /\ slot.section = "[layout]"
         -> [slot EXCEPT !.map[line.scancode] = parse_escape(line.value)]
    [] OTHER -> slot

Parse(slot, line) ==
  CASE trim(line.kind) \in Header -> [slot EXCEPT !.section = trim(line.kind)]
    [] trim(line.kind) = "code" /\ slot.section = "[metadata]" -> [slot EXCEPT !.code = line.value]
    [] line.kind = "key" /\ slot.section = "[layout]"
         -> [slot EXCEPT !.map[line.scancode] = parse_escape(line.value)]
    [] OTHER -> slot

parse_layout_file(lines) ==
  LET slot == FoldLeft(Parse, Zeroed, lines) IN [code |-> slot.code, map |-> slot.map]

(* keyboard_load_layouts: entries with another extension are passed over,   *)
(* and files that are empty; the loop ends early when the slots are used.   *)
keyboard_load_layout ==
  /\ boot = "load" /\ entry <= Len(directory)
  /\ LET file == directory[entry]
         room == Len(layouts) < MAX_LAYOUTS
     IN /\ layouts' = IF file.ext = "conf" /\ room /\ file.lines # <<>>
                      THEN Append(layouts, parse_layout_file(file.lines)) ELSE layouts
        /\ entry' = IF file.ext = "conf" /\ ~room THEN Len(directory) + 1 ELSE entry + 1
  /\ UNCHANGED <<directory, config, boot, current_layout_code, active, known, chosen>>

keyboard_load_layouts_ends ==
  /\ boot = "load" /\ entry > Len(directory)
  /\ boot' = "config"
  /\ UNCHANGED <<directory, config, entry, kernel_vars, known, chosen>>

(* keyboard_load_config: the default is kept without the file.              *)
keyboard_load_config ==
  /\ boot = "config" /\ boot' = "set"
  /\ current_layout_code' = IF config = NoFile THEN DefaultCode ELSE config
  /\ UNCHANGED <<directory, config, entry, layouts, active, known, chosen>>

WithCode(code) == {i \in 1 .. Len(layouts) : layouts[i].code = code}

keyboard_get_layout_by_code(code) == IF WithCode(code) = {} THEN 0 ELSE Min(WithCode(code))

(* What writing active.conf can leave: a missing file is not created, and   *)
(* whether there is a write callback is up to the file system.              *)
Written(code) == IF config = NoFile THEN {NoFile} ELSE {code, config}

(* keyboard_set_active_layout, which keyboard_save_config ends.             *)
keyboard_set_active_layout(code) ==
  /\ active' = keyboard_get_layout_by_code(code)
  /\ current_layout_code' = code
  /\ config' \in Written(code)

(* The end of keyboard_layouts_init: the configured layout, or else the     *)
(* first one; without layouts the driver keeps its built-in tables.         *)
keyboard_layouts_init ==
  /\ boot = "set" /\ boot' = "ready"
  /\ IF WithCode(current_layout_code) # {}
     THEN /\ active' = keyboard_get_layout_by_code(current_layout_code)
          /\ UNCHANGED <<current_layout_code, config>>
     ELSE IF layouts # <<>> THEN keyboard_set_active_layout(layouts[1].code)
     ELSE UNCHANGED <<active, current_layout_code, config>>
  /\ UNCHANGED <<directory, entry, layouts, known, chosen>>

-----------------------------------------------------------------------------
(* kbmap's own parser, which ends the metadata at any other header.         *)
KbmapParse_ignoring_headers(s, line) ==
  CASE line.kind = "[metadata]" -> [s EXCEPT !.in_metadata = TRUE]
    [] line.kind = "code" /\ s.in_metadata -> [s EXCEPT !.code = line.value]
    [] OTHER -> s

KbmapParse(s, line) ==
  CASE line.kind = "[metadata]" -> [s EXCEPT !.in_metadata = TRUE]
    [] line.kind \in {"[metadata] ", "[layout]", "[other]"} -> [s EXCEPT !.in_metadata = FALSE]
    [] line.kind = "code" /\ s.in_metadata -> [s EXCEPT !.code = line.value]
    [] OTHER -> s

KbmapCode(lines) == FoldLeft(KbmapParse, [in_metadata |-> FALSE, code |-> NoCode], lines).code

kbmap_starts ==
  /\ boot = "ready" /\ boot' = "list"
  /\ entry' = 1 /\ known' = <<>>
  /\ UNCHANGED <<directory, config, kernel_vars, chosen>>

(* load_layouts: only files that name a code are kept.                      *)
load_layouts ==
  /\ boot = "list" /\ entry <= Len(directory)
  /\ LET file == directory[entry]
     IN known' = IF file.ext = "layout" /\ KbmapCode(file.lines) # NoCode
                 THEN Append(known, KbmapCode(file.lines)) ELSE known
  /\ entry' = IF Len(known') = MAX_LAYOUTS THEN Len(directory) + 1 ELSE entry + 1
  /\ UNCHANGED <<directory, config, boot, kernel_vars, chosen>>

load_layouts_ends ==
  /\ boot = "list" /\ entry > Len(directory)
  /\ boot' = "command"
  /\ UNCHANGED <<directory, config, entry, kernel_vars, known, chosen>>

(* "kbmap set": an unknown code, or a file that cannot be opened, is        *)
(* reported; a failing write is not.                                        *)
set_layout(code) ==
  /\ boot = "command" /\ boot' = "ready"
  /\ IF config # NoFile /\ \E i \in 1 .. Len(known) : known[i] = code
     THEN config' \in Written(code) /\ chosen' = code
     ELSE UNCHANGED <<config, chosen>>
  /\ UNCHANGED <<directory, entry, kernel_vars, known>>

(* The machine is switched off and on: files stay, memory does not.         *)
restart ==
  /\ boot = "ready" /\ boot' = "load"
  /\ entry' = 1 /\ layouts' = <<>> /\ current_layout_code' = DefaultCode
  /\ active' = 0 /\ known' = <<>>
  /\ UNCHANGED <<directory, config, chosen>>

LayoutsNext ==
  \/ keyboard_load_layout \/ keyboard_load_layouts_ends
  \/ keyboard_load_config \/ keyboard_layouts_init
  \/ kbmap_starts \/ load_layouts \/ load_layouts_ends
  \/ \E code \in Codes : set_layout(code)
  \/ restart

LayoutsSpec ==
  LayoutsInit(LayoutDirs, Codes \cup {NoFile}) /\ [][LayoutsNext]_layout_vars

-----------------------------------------------------------------------------
(* The lines that stand below the header h, the nearest one.                *)
Below(lines, h) ==
  {i \in 1 .. Len(lines) : \E j \in 1 .. i - 1 :
     /\ trim(lines[j].kind) = h
     /\ \A k \in j + 1 .. i : trim(lines[k].kind) \notin Header}

Described(lines) ==
  LET codes == {i \in Below(lines, "[metadata]") : trim(lines[i].kind) = "code"}
      keys(s) == {i \in Below(lines, "[layout]") : lines[i].kind = "key" /\ lines[i].scancode = s}
  IN [code |-> IF codes = {} THEN NoCode ELSE lines[Max(codes)].value,
      map |-> [s \in Scancodes |->
                 IF keys(s) = {} THEN Unmapped ELSE parse_escape(lines[Max(keys(s))].value)]]

(* After every boot the layouts are what the .conf files describe, in the   *)
(* order of the directory and as far as there are slots: the code is the    *)
(* last one under [metadata], a key's character the last one under          *)
(* [layout], whatever the order and number of the sections, and a file that *)
(* was passed over leaves nothing behind.                                   *)
LayoutsAreTheFiles ==
  boot \notin {"load"} =>
    LET confs == {i \in 1 .. Len(directory) : directory[i].ext = "conf" /\ directory[i].lines # <<>>}
        nth(n) == CHOOSE i \in confs : Cardinality({j \in confs : j <= i}) = n
    IN layouts = [n \in 1 .. Min({Cardinality(confs), MAX_LAYOUTS}) |->
                    Described(directory[nth(n)].lines)]

(* The two parsers agree: kbmap offers a file under the code the kernel     *)
(* would load it with, if the file has no other sections and no stray       *)
(* blanks.                                                                  *)
ParsersAgree ==
  boot \in {"list", "command"} =>
    \A i \in 1 .. Len(directory) :
      (\A k \in 1 .. Len(directory[i].lines) :
         directory[i].lines[k].kind \notin {"[other]", "[metadata] ", "code "})
        => KbmapCode(directory[i].lines) = parse_layout_file(directory[i].lines).code

(* "Note: Restart the system for changes to take effect" (kbmap, after it   *)
(* has opened the configuration for writing): after the restart the driver  *)
(* uses that layout.                                                        *)
SetTakesEffect ==
  [][boot = "set" /\ boot' = "ready" /\ chosen # NoCode
       => active' # 0 /\ layouts[active'].code = chosen]_layout_vars
=============================================================================
